---- MODULE Spec2Model ----
(***************************************************************************)
(* Model of the reclog session supervisor (src/src/main.rs) together with  *)
(* the pieces it drives: the bounded buffer queue (buffer.rs), the         *)
(* interruptible reader (reader.rs), the child record (pty.rs), the signal *)
(* service (signal.rs) and the terminal adapter (term.rs).                 *)
(*                                                                         *)
(* Threads: "main" (startup, the pty-reader loop, shutdown), "sig"         *)
(* (process_signals), "out" (queue_2_stdout), "in" (stdin_2_pty).  The     *)
(* child process, the user (signals sent to the parent input) and   *)
(* the kernel are the environment.                                         *)
(*                                                                         *)
(* Bytes are tokens: "x" a printable byte, "NL" a line feed, "e" an ANSI   *)
(* escape sequence, "H" the text of the header, "T" the text of a          *)
(* timestamp, "VEOF" the end-of-file character of the slave terminal.      *)
(***************************************************************************)
EXTENDS Integers, Sequences, FiniteSets, TLC

\* ------------------------------------------------------------------ bounds

\* Recording sessions (SpecData): chunks the child writes to its terminal.
MaxChunks == 2
\* Typing sessions (SpecTyping): lines the user types on the parent's stdin.
MaxStdinLines == 1
\* Signal sessions (Spec): signals the user sends to the parent.
MaxUserSignals == 2
\* Chunks the child writes in signal and typing sessions.
MaxSigChunks == 1
\* Capacity of the buffer queue (--buffer) in the sessions.
BufferCap == 1
\* Largest capacity of the buffer queue when it is exercised on its own.
MaxQueueSize == 2
\* Bytes one read of the master returns at most (the BufReader's capacity).
ReadMax == 2
\* Calls a caller makes on the child record, the queue or a reader when
\* these are exercised on their own.
MaxDrvCalls == 5

\* --------------------------------------------------------------- constants

EXIT_SUCCESS == 0
EXIT_FAILURE == 1
EXIT_COMMAND_FAILED == 126
EXIT_COMMAND_SIGNALED == 128

\* What the child writes in one write(2): a complete line, or an escape
\* sequence and a printable byte with no line feed after them.
Chunks == { <<"x", "NL">>, <<"e", "x">> }

\* Exit codes the child ends with.
ChildExitCodes == {0, 3}

EVENT_SIGNALS ==
    {"TERM", "INT", "HUP", "QUIT", "TSTP", "TTIN", "TTOU", "CONT", "CHILD", "WINCH"}

\* Signals the user (or the terminal driver) sends to the parent.
UserSignals == {"INT", "QUIT", "TSTP", "CONT"}

\* Window sizes of the parent's terminal.
WinSizes == {"small", "large", "wide"}

Threads == {"main", "sig", "out", "in"}

\* Signalling numbers of the host (Linux), as terminating_signal() reports.
SigNum(s) ==
    CASE s = "HUP" -> 1 [] s = "INT" -> 2 [] s = "QUIT" -> 3 [] s = "KILL" -> 9
      [] s = "SEGV" -> 11 [] s = "TERM" -> 15 [] OTHER -> 0

VARIABLES
    \* command line
    header,         \* Formatter.enable_header (--header), cleared once emitted
    ts,             \* Formatter.enable_time (--ts)
    raw,            \* --raw
    silent,         \* --silent
    queue_size,     \* --buffer, the capacity BufferQueue::new is given
    \* terminal of the parent
    stdinIsTty,     \* term::is_tty(stdin)
    stdoutIsTty,    \* term::is_tty(stdout)
    tty,            \* current termios of stdin: [icanon]
    TTY_STATE,      \* saved termios: [some, icanon]
    stdoutWin,      \* winsize of the parent's stdout
    masterWin,      \* winsize of the master pty
    win_size,       \* copy_tty_size: the winsize read from stdout, "" outside the call
    \* the parent process
    proc,           \* "running", "stopped", "exited", "killed"
    exitCode,       \* code given to process::exit, -1 if none
    exitSig,        \* signal that killed the parent, "" if none
    exitVia,        \* "": running; "forward", "error", "startup", "signal"
    diag,           \* a "reclog: ..." diagnostic was printed by terminate!
    pc,             \* position of every thread
    termArg,        \* per thread: the code terminate! was invoked with
    raiseArg,       \* per thread: [sig, ret] of the raise_signal in progress
    panicked,       \* a panic!() was hit
    \* signal service
    sigPending,     \* event signals pending for the parent (blocked, not yet waited)
    sigMask,        \* per thread: the event signals it blocks
    envEvents,      \* [chunks, signals, lines]: what the environment did so far
    pending_interrupt,
    pending_stop,
    event_sig,      \* signal of the terminal event being handled
    joined_interrupt, \* value main got from joining the signal thread
    \* child record (pty.rs) and the child process
    last_status,
    final_status,
    childSt,        \* "none", "running", "stopped", "dead"
    childEvt,       \* status change the kernel has not reported to waitpid yet
    childSigs,      \* signals sent to the child's group, not yet acted upon
    killLog,        \* signals passed to kill(2) by kill_child, in order
    childOut,       \* every byte the child wrote, in order
    \* master pty, pty reader and its BufReader
    ptyBuf,         \* bytes the child wrote, not yet read from the master
    ptyIn,          \* buffers written to the master by the stdin pump
    mode,           \* per reader: "NoTimeout", "Timeout", "Closed"
    pipe,           \* per reader: bytes in the self-pipe
    sel,            \* per reader: "" or the timeout select was entered with
    brBuf,          \* BufReader of the pty: bytes read, not yet consumed
    buf,            \* buffer held by the pty-reader loop: [id, bytes]
    lineSize,       \* bytes read_line has appended to buf so far
    allocs,         \* buffers allocated by the pty-reader loop
    readLog,        \* buffers the loop produced (header or line), in order
    \* output sink
    sinkLog,        \* buffers written to out_writer, in order
    lwBuf,          \* bytes held by the LineWriter of the ANSI stripper
    fileBytes,      \* contents of the output file
    \* queue and stdout
    ringbuf,
    closed,
    enqLog,         \* buffers handed to BufferQueue.write, in order
    outBuf,         \* buffer held by the stdout pump
    stdoutLog,      \* buffers written to stdout, in order
    \* stdin
    stdinBuf,       \* lines not yet read
    inBuf,          \* line held by the stdin pump
    stdin_eof,
    \* observation
    dataAtTimeout,  \* the master was readable when set_timeout was called
    quitWaited,     \* wait_signal(Some(timeout)) was called
    ringAtClose,    \* the buffers in the queue when main closed it
    \* a caller of the child record, the queue or a reader on its own
    drvRet,         \* [op, val, n]: the last call made, what it returned, calls so far
    drvPend,        \* per channel: close/set_timeout calls between their two halves
    drvIo,          \* the fds read and written: eof (the fd read has ended),
                    \* writable (the fd written accepts bytes), fails (the
                    \* output file fails its writes), last_err (the field of
                    \* the AnsiPerformer) and, for the channels exercised on
                    \* their own, the writes done and the position of the read
                    \* and of the write in progress
    winSynced       \* master and stdout had one winsize since the last WINCH was taken

cfgVars == <<raw, silent, ts, queue_size, stdinIsTty, stdoutIsTty>>
ttyVars == <<tty, TTY_STATE, stdoutWin, masterWin>>
procVars == <<proc, exitCode, exitSig, exitVia, diag, pc, termArg, raiseArg, panicked>>
sigVars == <<sigPending, envEvents, pending_interrupt, pending_stop, event_sig,
             joined_interrupt>>
childVars == <<last_status, final_status, childSt, childEvt, childSigs, killLog,
               childOut>>
rdVars == <<ptyBuf, ptyIn, mode, pipe, sel, brBuf, buf, lineSize, allocs, readLog, header>>
sinkVars == <<sinkLog, lwBuf, fileBytes>>
queueVars == <<ringbuf, closed, enqLog, outBuf, stdoutLog>>
stdinVars == <<stdinBuf, inBuf, stdin_eof>>
drvVars == <<drvRet, drvPend, drvIo>>
obsVars == <<dataAtTimeout, quitWaited, winSynced, ringAtClose>>

vars == <<cfgVars, sigMask, drvVars, win_size, ttyVars, procVars, sigVars, childVars, rdVars, sinkVars,
          queueVars, stdinVars, obsVars>>

\* ----------------------------------------------------------------- helpers

NoStatus == [kind |-> "none", code |-> 0, sig |-> ""]
Exited(c) == [kind |-> "exited", code |-> c, sig |-> ""]
Signaled(s) == [kind |-> "signaled", code |-> 0, sig |-> s]
Stopped == [kind |-> "stopped", code |-> 0, sig |-> ""]
Continued == [kind |-> "continued", code |-> 0, sig |-> ""]

IsFinal(st) == st.kind \in {"exited", "signaled"}

NoBuf == [id |-> 0, bytes |-> <<>>]
NoTerm == [code |-> -1, diag |-> FALSE, via |-> ""]
NoRaise == [sig |-> "", ret |-> ""]

RECURSIVE Flatten(_)
Flatten(bufs) ==
    IF bufs = <<>> THEN <<>> ELSE Head(bufs).bytes \o Flatten(Tail(bufs))

\* Position of the first line feed of s, 0 if there is none.
RECURSIVE FirstNL(_, _)
FirstNL(s, i) ==
    IF i > Len(s) THEN 0 ELSE IF s[i] = "NL" THEN i ELSE FirstNL(s, i + 1)

IsPrefix(s, t) == Len(s) <= Len(t) /\ SubSeq(t, 1, Len(s)) = s

Running == proc = "running"
At(t, p) == Running /\ pc[t] = p
Goto(t, p) == pc' = [pc EXCEPT ![t] = p]

\* -------------------------------------------------------------------- Init

\* The process has parsed its arguments and is about to run main().
InitSized(sizes, headers, tss, raws, silents, ttys, outTtys) ==
    /\ queue_size \in sizes
    /\ header \in headers
    /\ ts \in tss
    /\ raw \in raws
    /\ silent \in silents
    /\ stdinIsTty \in ttys
    /\ stdoutIsTty \in outTtys
    /\ tty = [icanon |-> FALSE]
    /\ TTY_STATE = [some |-> FALSE, icanon |-> FALSE]
    /\ stdoutWin = "small"
    /\ masterWin = "unset"
    /\ win_size = ""
    /\ proc = "running"
    /\ exitCode = -1
    /\ exitSig = ""
    /\ exitVia = ""
    /\ diag = FALSE
    /\ pc = [t \in Threads |-> IF t = "main" THEN "start" ELSE "unborn"]
    /\ termArg = [t \in Threads |-> NoTerm]
    /\ raiseArg = [t \in Threads |-> NoRaise]
    /\ panicked = FALSE
    /\ sigPending = {}
    /\ sigMask = [t \in Threads |-> {}]
    /\ envEvents = [chunks |-> 0, signals |-> 0, lines |-> 0]
    /\ pending_interrupt = ""
    /\ pending_stop = ""
    /\ event_sig = ""
    /\ joined_interrupt = ""
    /\ last_status = NoStatus
    /\ final_status = NoStatus
    /\ childSt = "none"
    /\ childEvt = NoStatus
    /\ childSigs = {}
    /\ killLog = <<>>
    /\ childOut = <<>>
    /\ ptyBuf = <<>>
    /\ ptyIn = <<>>
    /\ mode = [r \in {"pty", "stdin", "writer"} |-> IF r = "writer" THEN "Open" ELSE "NoTimeout"]
    /\ pipe = [r \in {"pty", "stdin", "writer"} |-> 0]
    /\ sel = [r \in {"pty", "stdin", "writer"} |-> ""]
    /\ brBuf = <<>>
    /\ buf = NoBuf
    /\ lineSize = 0
    /\ allocs = 0
    /\ readLog = <<>>
    /\ sinkLog = <<>>
    /\ lwBuf = <<>>
    /\ fileBytes = <<>>
    /\ ringbuf = <<>>
    /\ closed = FALSE
    /\ enqLog = <<>>
    /\ outBuf = NoBuf
    /\ stdoutLog = <<>>
    /\ stdinBuf = <<>>
    /\ inBuf = <<>>
    /\ stdin_eof = FALSE
    /\ dataAtTimeout = FALSE
    /\ quitWaited = FALSE
    /\ winSynced = TRUE
    /\ ringAtClose = <<>>
    /\ drvRet = [op |-> "", val |-> "", n |-> 0]
    /\ drvPend = [h \in {"stdin", "writer"} |-> <<>>]
    /\ drvIo = [eof |-> FALSE, writable |-> TRUE, fails |-> FALSE, last_err |-> FALSE,
                written |-> 0, rd |-> "idle", wr |-> "idle"]

\* The same without --header and --ts.
InitCfg(headers, tss, raws, silents, ttys, outTtys) ==
    InitSized({BufferCap}, headers, tss, raws, silents, ttys, outTtys)

InitTerm(raws, silents, ttys, outTtys) ==
    InitCfg({FALSE}, {FALSE}, raws, silents, ttys, outTtys)

\* The same with stdout on a terminal.
InitWith(raws, silents, ttys) == InitTerm(raws, silents, ttys, {TRUE})

\* ------------------------------------------------- terminal hooks (main.rs)

\* before_start: at startup save the termios of stdin, then (startup and
\* wakeup) enable canonical mode; nothing if stdin is no terminal.
SavedAtStart(startup) ==
    IF stdinIsTty /\ startup THEN [some |-> TRUE, icanon |-> tty.icanon] ELSE TTY_STATE

before_start(startup) ==
    /\ TTY_STATE' = SavedAtStart(startup)
    /\ tty' = IF stdinIsTty THEN [tty EXCEPT !.icanon = TRUE] ELSE tty

\* Variant: a before_exit that leaves the terminal as it is.
before_exit_KeepsMode ==
    /\ tty' = tty
    /\ UNCHANGED TTY_STATE

\* before_exit: restore the saved termios if there is one.
before_exit ==
    /\ tty' = IF TTY_STATE.some THEN [tty EXCEPT !.icanon = TTY_STATE.icanon] ELSE tty
    /\ UNCHANGED TTY_STATE

\* terminate!(code; message): the message is printed, then before_exit runs
\* (TermRestore) and then process::exit(code) (TermExit).
Terminate(t, code, msg, via) ==
    /\ pc' = [pc EXCEPT ![t] = "term_restore"]
    /\ termArg' = [termArg EXCEPT ![t] = [code |-> code, diag |-> msg, via |-> via]]

TermRestore(t) ==
    /\ At(t, "term_restore")
    /\ before_exit
    /\ diag' = (diag \/ termArg[t].diag)
    /\ Goto(t, "term_exit")
    /\ UNCHANGED <<cfgVars, sigMask, drvVars, win_size, obsVars, stdoutWin, masterWin, proc, exitCode, exitSig, exitVia,
                   termArg, raiseArg, panicked, sigVars, childVars, rdVars, sinkVars,
                   queueVars, stdinVars>>

TermExit(t) ==
    /\ At(t, "term_exit")
    /\ proc' = "exited"
    /\ exitCode' = termArg[t].code
    /\ exitVia' = termArg[t].via
    /\ UNCHANGED <<cfgVars, sigMask, drvVars, win_size, obsVars, ttyVars, exitSig, diag, pc, termArg, raiseArg, panicked,
                   sigVars, childVars, rdVars, sinkVars, queueVars, stdinVars>>

\* ------------------------------------------ signal masks (signal.rs, shim.rs)

\* shim::sigmask: pthread_sigmask(SIG_BLOCK or SIG_UNBLOCK) on the mask m of
\* the calling thread.
sigmask(m, sigs, how) == IF how = "Block" THEN m \cup sigs ELSE m \ sigs

\* Variant: an initialisation that sets the dispositions only.
init_parent_signals_NoBlock(m) == m

\* init_parent_signals: the event signals are blocked in the calling thread
\* (the dispositions are the default ones, a no-op handler for CHILD).
init_parent_signals(m) == sigmask(m, EVENT_SIGNALS, "Block")

IsDeadly(s) == s \in {"TERM", "INT", "HUP", "QUIT"}
IsStop(s) == s \in {"TSTP", "TTIN", "TTOU"}

\* Thread t exists: it was spawned and has not ended.
ThreadLives(t) == pc[t] \notin {"unborn", "exited", "returned", "panicked"}

\* Some thread of the process does not block s.
Unblocked(s) == \E t \in Threads : ThreadLives(t) /\ s \notin sigMask[t]

\* A signal sent to the running process that a thread does not block and
\* whose default action stops or ends the process is taken by that thread
\* at once.
TakenAtOnce(s) == Running /\ Unblocked(s) /\ (IsStop(s) \/ IsDeadly(s))

\* ---------------------------------------------- raise_signal (main.rs 237)

\* raise_signal(sig) called by thread t; ret is where t goes on when the
\* call returns Ok.
Raise(t, sig, ret) ==
    /\ pc' = [pc EXCEPT ![t] = "raise_restore"]
    /\ raiseArg' = [raiseArg EXCEPT ![t] = [sig |-> sig, ret |-> ret]]

\* before_exit() of raise_signal.
RaiseRestore(t) ==
    /\ At(t, "raise_restore")
    /\ before_exit
    /\ Goto(t, "raise_deliver")
    /\ UNCHANGED <<cfgVars, sigMask, drvVars, win_size, obsVars, stdoutWin, masterWin, proc, exitCode, exitSig, exitVia, diag,
                   termArg, raiseArg, panicked, sigVars, childVars, rdVars, sinkVars,
                   queueVars, stdinVars>>

\* deliver_signal(sig): unblock, kill(getpid(), sig), block again.  The
\* dispositions are the default ones (init_parent_signals): a deadly signal
\* ends the process here, a stop signal suspends every thread of it, and
\* the call returns when the process is continued.  An instance of sig
\* that was pending is delivered to the thread by the unblock; the
\* suspension it causes and the one of the kill after it are one here.
RaiseDeliver(t) ==
    /\ At(t, "raise_deliver")
    /\ sigMask' = [sigMask EXCEPT ![t] = sigmask(@, {raiseArg[t].sig}, "Unblock")]
    /\ sigPending' = sigPending \ {raiseArg[t].sig}
    /\ proc' = IF IsDeadly(raiseArg[t].sig) THEN "killed"
               ELSE IF IsStop(raiseArg[t].sig) THEN "stopped" ELSE proc
    /\ exitSig' = IF IsDeadly(raiseArg[t].sig) THEN raiseArg[t].sig ELSE exitSig
    /\ exitVia' = IF IsDeadly(raiseArg[t].sig)
                  THEN (IF t = "main" THEN "forward" ELSE "signal") ELSE exitVia
    /\ Goto(t, "raise_wakeup")
    /\ UNCHANGED <<cfgVars, drvVars, win_size, obsVars, ttyVars, exitCode, diag, termArg, raiseArg, panicked,
                   envEvents, pending_interrupt, pending_stop, event_sig, joined_interrupt,
                   childVars, rdVars, sinkVars, queueVars, stdinVars>>

\* The signal is blocked again and deliver_signal returns; then
\* before_start(StartMode::Wakeup) and raise_signal returns Ok; in
\* forward_exit_status the caller goes on to terminate!(128 + n).
RaiseWakeup(t) ==
    /\ At(t, "raise_wakeup")
    /\ sigMask' = [sigMask EXCEPT ![t] = sigmask(@, {raiseArg[t].sig}, "Block")]
    /\ before_start(FALSE)
    /\ raiseArg' = [raiseArg EXCEPT ![t] = NoRaise]
    /\ IF raiseArg[t].ret = "fwd_exit"
       THEN Terminate(t, EXIT_COMMAND_SIGNALED + SigNum(last_status.sig), TRUE, "forward")
       ELSE Goto(t, raiseArg[t].ret) /\ UNCHANGED termArg
    /\ UNCHANGED <<cfgVars, drvVars, win_size, obsVars, stdoutWin, masterWin, proc, exitCode, exitSig, exitVia, diag,
                   panicked, sigVars, childVars, rdVars, sinkVars,
                   queueVars, stdinVars>>

\* -------------------------------------------------- child record (pty.rs)

\* kill(2) on the child's process group: the signal becomes pending there
\* unless the child is gone; CONT discards pending stops and STOP a pending CONT.
KernelKill(sigs, s) ==
    IF childSt = "dead" THEN sigs
    ELSE IF s = "CONT" THEN (sigs \ {"STOP"}) \cup {"CONT"}
    ELSE IF s = "STOP" THEN (sigs \ {"CONT"}) \cup {"STOP"}
    ELSE sigs \cup {s}

\* kill_child panics once a final status is latched.
KillPanics(final) == final # NoStatus

\* waitpid(pid, WUNTRACED | WCONTINUED | WNOHANG): the unreported status
\* change, if any.
WaitPid == childEvt

\* Variant: a wait_child that calls waitpid although a final status is recorded.
wait_child_Rewaits ==
    IF WaitPid = NoStatus
    THEN [ret |-> NoStatus, last |-> last_status, final |-> final_status,
          evt |-> childEvt]
    ELSE [ret |-> WaitPid, last |-> WaitPid,
          final |-> IF IsFinal(WaitPid) THEN WaitPid ELSE final_status,
          evt |-> NoStatus]

\* Variant: a wait_child that does not record the status as the last one.
wait_child_KeepsLast ==
    IF final_status # NoStatus
    THEN [ret |-> final_status, last |-> last_status, final |-> final_status,
          evt |-> childEvt]
    ELSE IF WaitPid = NoStatus
    THEN [ret |-> NoStatus, last |-> last_status, final |-> final_status,
          evt |-> childEvt]
    ELSE [ret |-> WaitPid, last |-> last_status,
          final |-> IF IsFinal(WaitPid) THEN WaitPid ELSE final_status,
          evt |-> NoStatus]

\* wait_child(NoHang): [ret, last, final, evt], the value returned and the
\* record (and the kernel's unreported change) afterwards.
wait_child ==
    IF final_status # NoStatus
    THEN [ret |-> final_status, last |-> last_status, final |-> final_status,
          evt |-> childEvt]
    ELSE IF WaitPid = NoStatus
    THEN [ret |-> NoStatus, last |-> last_status, final |-> final_status,
          evt |-> childEvt]
    ELSE [ret |-> WaitPid, last |-> WaitPid,
          final |-> IF IsFinal(WaitPid) THEN WaitPid ELSE final_status,
          evt |-> NoStatus]

\* child_status(): the last status.
child_status == last_status

\* The n-th call of a caller, op, has returned val.
Returns(op, val) == drvRet' = [op |-> op, val |-> val, n |-> drvRet.n + 1]

Returned(op, val) == Returns(op, val) /\ UNCHANGED <<drvPend, drvIo>>

\* wait_child(mode) called on the record by itself.  With Hang and no final
\* status recorded the call returns only when the child changed state.
DrvWait(m) ==
    /\ pc["main"] # "start"
    /\ drvRet.n < MaxDrvCalls
    /\ (m = "Hang" /\ final_status = NoStatus) => WaitPid # NoStatus
    /\ LET w == wait_child
       IN /\ last_status' = w.last
          /\ final_status' = w.final
          /\ childEvt' = w.evt
          /\ Returned("wait_child", w.ret)
    /\ UNCHANGED <<cfgVars, sigMask, win_size, obsVars, ttyVars, procVars, sigVars, childSt, childSigs,
                   killLog, childOut, rdVars, sinkVars, queueVars, stdinVars>>

\* kill_child(s) called on the record by itself, before any final status.
DrvKill(s) ==
    /\ pc["main"] # "start"
    /\ ~KillPanics(final_status)
    /\ drvRet.n < MaxDrvCalls
    /\ killLog' = Append(killLog, s)
    /\ childSigs' = KernelKill(childSigs, s)
    /\ Returned("kill_child", NoStatus)
    /\ UNCHANGED <<cfgVars, sigMask, win_size, obsVars, ttyVars, procVars, sigVars, last_status,
                   final_status, childSt, childEvt, childOut, rdVars, sinkVars, queueVars,
                   stdinVars>>

\* --------------------------------------- process_signals (main.rs 309-489)

\* to_event (signal.rs 45)
to_event(s) ==
    CASE s \in {"TERM", "INT", "HUP"} -> "Interrupt"
      [] s = "QUIT" -> "Quit"
      [] s \in {"TSTP", "TTIN", "TTOU"} -> "Stop"
      [] s = "CONT" -> "Continue"
      [] s = "CHILD" -> "Child"
      [] s = "WINCH" -> "Resize"
      [] OTHER -> "Unknown"

\* Variant: a kill_child(s) that sends KILL right after s.
KillChildOnce_ThenKill(s, next) ==
    /\ panicked' = panicked
    /\ killLog' = killLog \o <<s, "KILL">>
    /\ childSigs' = KernelKill(KernelKill(childSigs, s), "KILL")
    /\ Goto("sig", next)

\* One kill_child(s) and nothing else that touches the child record.
KillChildOnce(s, next) ==
    /\ panicked' = (panicked \/ KillPanics(final_status))
    /\ killLog' = IF KillPanics(final_status) THEN killLog ELSE Append(killLog, s)
    /\ childSigs' = IF KillPanics(final_status) THEN childSigs ELSE KernelKill(childSigs, s)
    /\ Goto("sig", IF KillPanics(final_status) THEN "panicked" ELSE next)

\* Interrupt signal received first time: forward it and go on waiting.
SigInterruptFirst(s) ==
    /\ At("sig", "wait")
    /\ s \in sigPending
    /\ to_event(s) = "Interrupt"
    /\ pending_interrupt = ""
    /\ sigPending' = sigPending \ {s}
    /\ KillChildOnce(s, "wait")
    /\ pending_interrupt' = IF KillPanics(final_status) THEN pending_interrupt ELSE s
    /\ UNCHANGED <<cfgVars, sigMask, drvVars, win_size, obsVars, ttyVars, proc, exitCode, exitSig, exitVia, diag, termArg,
                   raiseArg, envEvents, pending_stop, event_sig, joined_interrupt,
                   last_status, final_status, childSt, childEvt, childOut,
                   rdVars, sinkVars, queueVars, stdinVars>>

\* Interrupt received second time, or quit: forward it if nothing was
\* forwarded before and then wait for any signal or the timeout.
SigTerminal(s) ==
    /\ At("sig", "wait")
    /\ s \in sigPending
    /\ \/ to_event(s) = "Interrupt" /\ pending_interrupt # ""
       \/ to_event(s) = "Quit"
    /\ sigPending' = sigPending \ {s}
    /\ event_sig' = s
    /\ IF pending_interrupt = ""
       THEN KillChildOnce(s, "quit_wait")
       ELSE /\ Goto("sig", "quit_check")
            /\ UNCHANGED <<panicked, killLog, childSigs>>
    /\ UNCHANGED <<cfgVars, sigMask, drvVars, win_size, obsVars, ttyVars, proc, exitCode, exitSig, exitVia, diag, termArg,
                   raiseArg, envEvents, pending_interrupt, pending_stop, joined_interrupt,
                   last_status, final_status, childSt, childEvt, childOut,
                   rdVars, sinkVars, queueVars, stdinVars>>

\* wait_signal(Some(timeout)): any pending event signal is taken (and the
\* event dropped); the timeout expires when none is pending.
SigQuitWait ==
    /\ At("sig", "quit_wait")
    /\ \E s \in sigPending \cup {"Timeout"} :
          /\ s = "Timeout" => sigPending = {}
          /\ sigPending' = sigPending \ {s}
    /\ quitWaited' = TRUE
    /\ Goto("sig", "quit_check")
    /\ UNCHANGED <<cfgVars, sigMask, drvVars, win_size, dataAtTimeout, winSynced, ringAtClose, ttyVars, proc, exitCode, exitSig, exitVia, diag,
                   termArg, raiseArg, panicked, envEvents, pending_interrupt, pending_stop,
                   event_sig, joined_interrupt, childVars, rdVars, sinkVars,
                   queueVars, stdinVars>>

\* Variant: the child is taken for gone whatever wait_child returned.
StillAlive_Never(ret) == FALSE

\* Variant: a check that takes the child for alive whatever wait_child returned.
StillAlive_Always(ret) == TRUE

\* The child is still alive unless wait_child returned exited or signaled.
StillAlive(ret) == ~IsFinal(ret)

\* wait_child(NoHang); KILL if the child is still alive; raise_signal(sig).
SigQuitCheck ==
    /\ At("sig", "quit_check")
    /\ LET w == wait_child
           alive == StillAlive(w.ret)
           boom == alive /\ KillPanics(w.final)
       IN /\ last_status' = w.last
          /\ final_status' = w.final
          /\ childEvt' = w.evt
          /\ panicked' = (panicked \/ boom)
          /\ killLog' = IF alive /\ ~boom THEN Append(killLog, "KILL") ELSE killLog
          /\ childSigs' = IF alive /\ ~boom THEN KernelKill(childSigs, "KILL") ELSE childSigs
          /\ IF boom
             THEN Goto("sig", "panicked") /\ UNCHANGED raiseArg
             ELSE Raise("sig", event_sig, "wait")
    /\ UNCHANGED <<cfgVars, sigMask, drvVars, win_size, obsVars, ttyVars, proc, exitCode, exitSig, exitVia, diag, termArg,
                   sigVars, childSt, childOut, rdVars, sinkVars, queueVars,
                   stdinVars>>

\* Stop signal received first time: stop the child and wait for SIGCHLD.
SigStopFirst(s) ==
    /\ At("sig", "wait")
    /\ s \in sigPending
    /\ to_event(s) = "Stop"
    /\ pending_stop = ""
    /\ sigPending' = sigPending \ {s}
    /\ KillChildOnce("STOP", "wait")
    /\ pending_stop' = IF KillPanics(final_status) THEN pending_stop ELSE s
    /\ UNCHANGED <<cfgVars, sigMask, drvVars, win_size, obsVars, ttyVars, proc, exitCode, exitSig, exitVia, diag, termArg,
                   raiseArg, envEvents, pending_interrupt, event_sig, joined_interrupt,
                   last_status, final_status, childSt, childEvt, childOut,
                   rdVars, sinkVars, queueVars, stdinVars>>

\* Stop signal received second time: stop the child and ourselves.
SigStopSecond(s) ==
    /\ At("sig", "wait")
    /\ s \in sigPending
    /\ to_event(s) = "Stop"
    /\ pending_stop # ""
    /\ sigPending' = sigPending \ {s}
    /\ panicked' = (panicked \/ KillPanics(final_status))
    /\ killLog' = IF KillPanics(final_status) THEN killLog ELSE Append(killLog, "STOP")
    /\ childSigs' = IF KillPanics(final_status) THEN childSigs
                    ELSE KernelKill(childSigs, "STOP")
    /\ IF KillPanics(final_status)
       THEN Goto("sig", "panicked") /\ UNCHANGED raiseArg
       ELSE Raise("sig", s, "drop_cont")
    /\ UNCHANGED <<cfgVars, sigMask, drvVars, win_size, obsVars, ttyVars, proc, exitCode, exitSig, exitVia, diag, termArg,
                   envEvents, pending_interrupt, pending_stop, event_sig, joined_interrupt,
                   last_status, final_status, childSt, childEvt, childOut,
                   rdVars, sinkVars, queueVars, stdinVars>>

\* After the resume: drop_signal(CONT), kill_child(CONT), pending_stop = None.
SigDropCont ==
    /\ At("sig", "drop_cont")
    /\ sigPending' = sigPending \ {"CONT"}
    /\ KillChildOnce("CONT", "wait")
    /\ pending_stop' = IF KillPanics(final_status) THEN pending_stop ELSE ""
    /\ UNCHANGED <<cfgVars, sigMask, drvVars, win_size, obsVars, ttyVars, proc, exitCode, exitSig, exitVia, diag, termArg,
                   raiseArg, envEvents, pending_interrupt, event_sig, joined_interrupt,
                   last_status, final_status, childSt, childEvt, childOut,
                   rdVars, sinkVars, queueVars, stdinVars>>

\* Resume signal received while we were not stopped.
SigContinue ==
    /\ At("sig", "wait")
    /\ "CONT" \in sigPending
    /\ sigPending' = sigPending \ {"CONT"}
    /\ KillChildOnce("CONT", "wait")
    /\ pending_stop' = IF KillPanics(final_status) THEN pending_stop ELSE ""
    /\ UNCHANGED <<cfgVars, sigMask, drvVars, win_size, obsVars, ttyVars, proc, exitCode, exitSig, exitVia, diag, termArg,
                   raiseArg, envEvents, pending_interrupt, event_sig, joined_interrupt,
                   last_status, final_status, childSt, childEvt, childOut,
                   rdVars, sinkVars, queueVars, stdinVars>>

\* Variant: a resize_child that copies the size whatever stdout is.
ResizeCopies_Always == TRUE

\* resize_child copies the size only if stdout is a terminal.
ResizeCopies == stdoutIsTty

\* Variant: a copy that sets the size the master had.
WinSizeRead_Stale == masterWin

\* tcgetwinsize(stdout).
WinSizeRead == stdoutWin

\* SIGWINCH: resize_child(): nothing if stdout is no terminal, else
\* copy_tty_size reads the winsize of stdout (tcgetwinsize).
SigResize ==
    /\ At("sig", "wait")
    /\ "WINCH" \in sigPending
    /\ sigPending' = sigPending \ {"WINCH"}
    /\ IF ResizeCopies
       THEN win_size' = WinSizeRead /\ Goto("sig", "resize_set")
       ELSE UNCHANGED <<win_size, pc>>
    /\ winSynced' = (masterWin = stdoutWin)
    /\ UNCHANGED <<cfgVars, sigMask, drvVars, dataAtTimeout, quitWaited, ringAtClose, ttyVars, proc, exitCode, exitSig, exitVia, diag, termArg,
                   raiseArg, panicked, envEvents, pending_interrupt, pending_stop, event_sig,
                   joined_interrupt, childVars, rdVars, sinkVars, queueVars, stdinVars>>

\* copy_tty_size sets the winsize on the master (tcsetwinsize), and the
\* signal processor waits for the next signal.
SigResizeSet ==
    /\ At("sig", "resize_set")
    /\ masterWin' = win_size
    /\ win_size' = ""
    /\ Goto("sig", "wait")
    /\ winSynced' = (winSynced \/ win_size = stdoutWin)
    /\ UNCHANGED <<cfgVars, sigMask, drvVars, dataAtTimeout, quitWaited, ringAtClose, tty, TTY_STATE, stdoutWin, proc, exitCode, exitSig,
                   exitVia, diag, termArg, raiseArg, panicked, sigVars, childVars, rdVars,
                   sinkVars, queueVars, stdinVars>>

\* tcgetwinsize or tcsetwinsize fails: terminate!(EXIT_FAILURE; "can't
\* resize pty").
SigResizeFail ==
    /\ At("sig", "resize_set")
    /\ win_size' = ""
    /\ Terminate("sig", EXIT_FAILURE, TRUE, "error")
    /\ UNCHANGED <<cfgVars, sigMask, drvVars, obsVars, ttyVars, proc, exitCode, exitSig, exitVia, diag,
                   raiseArg, panicked, sigVars, childVars, rdVars, sinkVars, queueVars,
                   stdinVars>>

\* Variant: a loop that is left at the first SIGCHLD.
LoopBreaks_Always(ret) == TRUE

\* Variant: a loop that is also left when the child stopped.
LoopBreaks_OnStopped(ret) == IsFinal(ret) \/ ret.kind = "stopped"

\* break 'wait_signal: the status is exited or signaled.
LoopBreaks(ret) == IsFinal(ret)

\* Variant: a parent that follows every stop of the child.
StopsParent_AnyStop(ret, pending) == ret.kind = "stopped"

\* The child stopped and a stop signal is recorded in pending_stop: the
\* parent stops itself.
StopsParent(ret, pending) == ret.kind = "stopped" /\ pending # ""

\* SIGCHLD: wait_child(NoHang) and act on the status.
SigChild ==
    /\ At("sig", "wait")
    /\ "CHILD" \in sigPending
    /\ sigPending' = sigPending \ {"CHILD"}
    /\ LET w == wait_child
       IN /\ last_status' = w.last
          /\ final_status' = w.final
          /\ childEvt' = w.evt
          /\ IF LoopBreaks(w.ret)
             THEN Goto("sig", "set_timeout") /\ UNCHANGED raiseArg
             ELSE IF StopsParent(w.ret, pending_stop)
             THEN Raise("sig", pending_stop, "drop_cont")
             ELSE Goto("sig", "wait") /\ UNCHANGED raiseArg
    /\ UNCHANGED <<cfgVars, sigMask, drvVars, win_size, obsVars, ttyVars, proc, exitCode, exitSig, exitVia, diag, termArg,
                   panicked, envEvents, pending_interrupt, pending_stop, event_sig,
                   joined_interrupt, childSt, childSigs, killLog, childOut,
                   rdVars, sinkVars, queueVars, stdinVars>>

\* ------------------------------------- InterruptibleReader (reader.rs)

Readers == {"pty", "stdin"}

\* close / set_timeout on a channel that is closed already return Ok at once.
AlreadyClosed(r) == mode[r] = "Closed"

\* Variant: a set_timeout/close that stores the mode also when closed.
SetMode_Reopens(r, m) == mode' = [mode EXCEPT ![r] = m]

\* set_timeout / close, first half: the mode is stored under the mutex,
\* unless the reader is closed already (then the call returns Ok at once).
SetMode(r, m) == mode' = [mode EXCEPT ![r] = IF mode[r] = "Closed" THEN "Closed" ELSE m]

\* Variant: a set_timeout/close that does not write to the self-pipe.
WakeReader_NoByte(r) == pipe

\* Variant: a wakeup of two bytes.
PipeWrite_TwoBytes(r) == [pipe EXCEPT ![r] = pipe[r] + 2]

\* shim::write(&self.pipe_wr, &[0u8])
PipeWrite(r) == [pipe EXCEPT ![r] = pipe[r] + 1]

\* Second half: one byte is written to the self-pipe, unless the reader was
\* closed already.
WakeReader(r) ==
    IF mode[r] = "Closed" THEN pipe ELSE PipeWrite(r)

\* Variant: a read_imp that does not look at the mode.
ReadsEof_Never(r) == FALSE

\* read_imp, top of the loop: the mode is re-read; Closed is end-of-file,
\* otherwise select is entered with the timeout of the mode.
ReadsEof(r) == mode[r] = "Closed"

\* select returns when the self-pipe or the data fd is readable; with a
\* timeout it also returns when the time elapsed with neither readable.
SelectReturns(r, dataReady) ==
    \/ pipe[r] > 0
    \/ dataReady
    \/ sel[r] = "Timeout"

\* Variant: a read_imp that takes every wakeup without data for the timeout.
SelectOutcome_WakeupEof(r, dataReady) == IF dataReady THEN "data" ELSE "eof"

\* Variant: a read_imp that tests the expired timeout before the data mask.
SelectOutcome_TimeoutFirst(r, dataReady) ==
    IF pipe[r] = 0 /\ sel[r] = "Timeout" THEN "eof"
    ELSE IF dataReady THEN "data"
    ELSE "again"

\* What read_imp does with the masks: "data" (leave the loop and read the
\* fd), "eof" (timeout expired) or "again" (only the pipe fired).
SelectOutcome(r, dataReady) ==
    IF dataReady THEN "data"
    ELSE IF pipe[r] = 0 /\ sel[r] = "Timeout" THEN "eof"
    ELSE "again"

\* The self-pipe is drained when it fired.
Drained(r) == [pipe EXCEPT ![r] = 0]

\* The channels on their own: the stdin reader and a writer, with callers
\* that close them, set the timeout, read and write in any order and from
\* any thread.

Channels == {"stdin", "writer"}

OkRet == [kind |-> "ok", bytes |-> <<>>]
ReadRet(bytes) == [kind |-> "read", bytes |-> bytes]
\* Ok(n) of a write: the first n bytes of the buffer are reported written.
WriteRet(bytes) == [kind |-> "write", bytes |-> bytes]

\* The buffer a caller hands to write.
WriteBuf == <<"x", "NL">>

\* Variant: a write_imp that does not look at the mode.
WritesDiscard_Never(r) == FALSE

\* write_imp, top of the loop: the mode is re-read; Closed discards.
WritesDiscard(r) == mode[r] = "Closed"

\* Calls begun so far: those returned and those in progress.
DrvBegun ==
    drvRet.n + Len(drvPend["stdin"]) + Len(drvPend["writer"])
    + (IF drvIo.rd = "idle" THEN 0 ELSE 1) + (IF drvIo.wr = "idle" THEN 0 ELSE 1)

\* The call that stores mode m.
ModeCall(m) == IF m = "Closed" THEN "close" ELSE "set_timeout"

\* The modes a caller can ask for.
ModeCalls(h) == IF h = "writer" THEN {"Closed"} ELSE {"Closed", "Timeout"}

\* close / set_timeout, first half, under the mutex: Ok at once when the
\* channel is closed, otherwise the mode is stored.
DrvStore(h, m) ==
    /\ pc["main"] # "start"
    /\ DrvBegun < MaxDrvCalls
    /\ SetMode(h, m)
    /\ IF AlreadyClosed(h)
       THEN Returns(ModeCall(m), OkRet) /\ UNCHANGED drvPend
       ELSE /\ drvPend' = [drvPend EXCEPT ![h] = Append(@, ModeCall(m))]
            /\ UNCHANGED drvRet
    /\ UNCHANGED <<cfgVars, sigMask, drvIo, win_size, obsVars, ttyVars, procVars, sigVars, childVars,
                   ptyBuf, ptyIn, pipe, sel, brBuf, buf, lineSize, allocs, readLog, header,
                   sinkVars, queueVars, stdinVars>>

\* close / set_timeout, second half: the byte is written to the self-pipe
\* and the call returns Ok.
DrvWake(h) ==
    /\ drvPend[h] # <<>>
    /\ \E i \in 1..Len(drvPend[h]) :
          /\ drvPend' = [drvPend EXCEPT ![h] =
                            SubSeq(@, 1, i - 1) \o SubSeq(@, i + 1, Len(@))]
          /\ Returns(drvPend[h][i], OkRet)
    /\ pipe' = PipeWrite(h)
    /\ UNCHANGED <<cfgVars, sigMask, drvIo, win_size, obsVars, ttyVars, procVars, sigVars, childVars,
                   ptyBuf, ptyIn, mode, sel, brBuf, buf, lineSize, allocs, readLog, header,
                   sinkVars, queueVars, stdinVars>>

\* read_imp, top of the loop, at the start of a read and after a wakeup.
DrvReadMode ==
    /\ pc["main"] # "start"
    /\ sel["stdin"] = ""
    /\ drvIo.rd = "idle" => DrvBegun < MaxDrvCalls
    /\ IF ReadsEof("stdin")
       THEN /\ Returns("read", ReadRet(<<>>))
            /\ drvIo' = [drvIo EXCEPT !.rd = "idle"]
            /\ UNCHANGED sel
       ELSE /\ sel' = [sel EXCEPT !["stdin"] = mode["stdin"]]
            /\ drvIo' = [drvIo EXCEPT !.rd = "top"]
            /\ UNCHANGED drvRet
    /\ UNCHANGED <<cfgVars, sigMask, drvPend, win_size, obsVars, ttyVars, procVars, sigVars, childVars,
                   ptyBuf, ptyIn, mode, pipe, brBuf, buf, lineSize, allocs, readLog, header,
                   sinkVars, queueVars, stdinVars>>

\* The data fd of the reader is readable: a line is there, or end-of-file.
DataReady == stdinBuf # <<>> \/ drvIo.eof

\* read_imp: select returns; the pipe is drained when it fired; when the
\* data fd is readable it is read: a line, or 0 bytes at its end-of-file.
DrvSelect ==
    /\ sel["stdin"] # ""
    /\ drvIo.rd = "top"
    /\ SelectReturns("stdin", DataReady)
    /\ pipe' = Drained("stdin")
    /\ sel' = [sel EXCEPT !["stdin"] = ""]
    /\ LET o == SelectOutcome("stdin", DataReady)
       IN IF o = "data"
          THEN /\ Returns("read", ReadRet(IF stdinBuf # <<>> THEN Head(stdinBuf) ELSE <<>>))
               /\ stdinBuf' = IF stdinBuf # <<>> THEN Tail(stdinBuf) ELSE stdinBuf
               /\ drvIo' = [drvIo EXCEPT !.rd = "idle"]
          ELSE IF o = "eof"
          THEN /\ Returns("read", ReadRet(<<>>))
               /\ drvIo' = [drvIo EXCEPT !.rd = "idle"]
               /\ UNCHANGED stdinBuf
          ELSE UNCHANGED <<drvRet, drvIo, stdinBuf>>
    /\ UNCHANGED <<cfgVars, sigMask, drvPend, win_size, obsVars, ttyVars, procVars, sigVars, childVars,
                   ptyBuf, ptyIn, mode, brBuf, buf, lineSize, allocs, readLog, header,
                   sinkVars, queueVars, inBuf, stdin_eof>>

\* write_imp, top of the loop: closed discards the bytes and returns Ok.
DrvWriteMode ==
    /\ pc["main"] # "start"
    /\ sel["writer"] = ""
    /\ drvIo.wr = "idle" => DrvBegun < MaxDrvCalls
    /\ IF WritesDiscard("writer")
       THEN /\ Returns("write", WriteRet(WriteBuf))
            /\ drvIo' = [drvIo EXCEPT !.wr = "idle"]
            /\ UNCHANGED sel
       ELSE /\ sel' = [sel EXCEPT !["writer"] = mode["writer"]]
            /\ drvIo' = [drvIo EXCEPT !.wr = "top"]
            /\ UNCHANGED drvRet
    /\ UNCHANGED <<cfgVars, sigMask, drvPend, win_size, obsVars, ttyVars, procVars, sigVars, childVars,
                   ptyBuf, ptyIn, mode, pipe, brBuf, buf, lineSize, allocs, readLog, header,
                   sinkVars, queueVars, stdinVars>>

\* write_imp: select returns; the pipe is drained when it fired; when the
\* data fd is writable the bytes are written to it.
DrvWriteSelect ==
    /\ sel["writer"] # ""
    /\ drvIo.wr = "top"
    /\ SelectReturns("writer", drvIo.writable)
    /\ pipe' = Drained("writer")
    /\ sel' = [sel EXCEPT !["writer"] = ""]
    /\ IF SelectOutcome("writer", drvIo.writable) = "data"
       THEN /\ Returns("write", WriteRet(WriteBuf))
            /\ drvIo' = [drvIo EXCEPT !.wr = "idle", !.written = @ + 1]
       ELSE UNCHANGED <<drvRet, drvIo>>
    /\ UNCHANGED <<cfgVars, sigMask, drvPend, win_size, obsVars, ttyVars, procVars, sigVars, childVars,
                   ptyBuf, ptyIn, mode, brBuf, buf, lineSize, allocs, readLog, header,
                   sinkVars, queueVars, stdinVars>>

\* The data fd of the reader reaches its end-of-file.
FdEof ==
    /\ pc["main"] # "start"
    /\ ~drvIo.eof
    /\ drvIo' = [drvIo EXCEPT !.eof = TRUE]
    /\ UNCHANGED <<cfgVars, sigMask, drvRet, drvPend, win_size, obsVars, ttyVars, procVars, sigVars,
                   childVars, rdVars, sinkVars, queueVars, stdinVars>>

\* The data fd of the writer becomes writable, or stops being so.
FdWritable ==
    /\ pc["main"] # "start"
    /\ drvIo' = [drvIo EXCEPT !.writable = ~@]
    /\ UNCHANGED <<cfgVars, sigMask, drvRet, drvPend, win_size, obsVars, ttyVars, procVars, sigVars,
                   childVars, rdVars, sinkVars, queueVars, stdinVars>>

\* ----------------------------------------------- output sink (term.rs)

\* AnsiStripper over a LineWriter: printable bytes and line feeds go to the
\* line writer, escape sequences are dropped; the line writer passes its
\* buffer on to the file at every line feed.  [lw, file] after the bytes.
RECURSIVE AnsiWrite(_, _, _)
AnsiWrite(lw, file, bytes) ==
    IF bytes = <<>> THEN [lw |-> lw, file |-> file]
    ELSE IF Head(bytes) = "e" THEN AnsiWrite(lw, file, Tail(bytes))
    ELSE IF Head(bytes) = "NL"
         THEN AnsiWrite(<<>>, file \o lw \o <<"NL">>, Tail(bytes))
    ELSE AnsiWrite(lw \o <<Head(bytes)>>, file, Tail(bytes))

\* out_writer.write_all(buf): the file itself with --raw, the stripper otherwise.
SinkWrite(bytes) ==
    IF raw THEN [lw |-> lwBuf, file |-> fileBytes \o bytes]
    ELSE AnsiWrite(lwBuf, fileBytes, bytes)

\* LineWriter::write_all of the one byte b, the file failing its writes
\* or not.  A line feed is written to the file at once when the buffer is
\* empty, and is appended to the buffer, which is then flushed, when it is
\* not; another byte is appended to the buffer, after a flush if the
\* buffer ends with a line feed that could not be flushed before.  A flush
\* that fails leaves the buffer as it is.  [lw, file, err] after the call.
LineWriteAll(lw, file, b, fails) ==
    IF b = "NL"
    THEN IF lw = <<>>
         THEN IF fails THEN [lw |-> lw, file |-> file, err |-> TRUE]
              ELSE [lw |-> lw, file |-> Append(file, b), err |-> FALSE]
         ELSE IF fails THEN [lw |-> Append(lw, b), file |-> file, err |-> TRUE]
              ELSE [lw |-> <<>>, file |-> file \o Append(lw, b), err |-> FALSE]
    ELSE IF lw # <<>> /\ lw[Len(lw)] = "NL"
         THEN IF fails THEN [lw |-> lw, file |-> file, err |-> TRUE]
              ELSE [lw |-> <<b>>, file |-> file \o lw, err |-> FALSE]
    ELSE [lw |-> Append(lw, b), file |-> file, err |-> FALSE]

\* parser.advance(&mut performer, buf): print and execute store the result
\* of the write_all of their byte in last_err, an escape sequence calls
\* neither.  st is [lw, file, last_err, failed], failed telling whether some
\* write_all of the call has failed.
RECURSIVE Advance(_, _, _)
Advance(st, bytes, fails) ==
    IF bytes = <<>> THEN st
    ELSE IF Head(bytes) = "e" THEN Advance(st, Tail(bytes), fails)
    ELSE LET w == LineWriteAll(st.lw, st.file, Head(bytes), fails)
         IN Advance([lw |-> w.lw, file |-> w.file, last_err |-> w.err,
                     failed |-> st.failed \/ w.err], Tail(bytes), fails)

\* The state of the stripper as a write call finds it.
StripperState ==
    [lw |-> lwBuf, file |-> fileBytes, last_err |-> drvIo.last_err, failed |-> FALSE]

\* Buffers written to the stripper when it is exercised on its own.
StripBufs == Chunks \cup { <<"NL", "x">>, <<"x", "NL", "x">>, <<"x", "NL", "e">> }

\* AnsiStripper::write(buf): advance, then Err(err) if last_err.take() holds
\* an error and Ok(buf.len()) if not.
DrvStripWrite(bytes) ==
    /\ pc["main"] # "start"
    /\ drvRet.n < MaxDrvCalls
    /\ LET st == Advance(StripperState, bytes, drvIo.fails)
       IN /\ lwBuf' = st.lw
          /\ fileBytes' = st.file
          /\ drvIo' = [drvIo EXCEPT !.last_err = FALSE]
          /\ Returns("strip_write", [res |-> IF st.last_err THEN "Err" ELSE "Ok",
                                     buf |-> bytes])
    /\ UNCHANGED <<cfgVars, sigMask, drvPend, win_size, obsVars, ttyVars, procVars, sigVars, childVars,
                   rdVars, sinkLog, queueVars, stdinVars>>

\* The output file starts to fail its writes (the disk is full), or stops
\* doing so.
FileFails ==
    /\ pc["main"] # "start"
    /\ drvIo' = [drvIo EXCEPT !.fails = ~@]
    /\ UNCHANGED <<cfgVars, sigMask, drvRet, drvPend, win_size, obsVars, ttyVars, procVars, sigVars,
                   childVars, rdVars, sinkVars, queueVars, stdinVars>>

\* -------------------------------------------------- BufferQueue (buffer.rs)

\* Variant: a write that does not look at closed.
QueueWrite_IgnoresClosed(q, b) ==
    IF Len(q) >= queue_size THEN Append(Tail(q), b) ELSE Append(q, b)

\* Variant: a write that drops the new buffer when the ring is full.
QueueWrite_DropsNewest(q, b) ==
    IF closed \/ Len(q) >= queue_size THEN q ELSE Append(q, b)

\* write: discarded if closed, otherwise enqueued; a full ring drops its
\* oldest element.
QueueWrite(q, b) ==
    IF closed THEN q
    ELSE IF Len(q) >= queue_size THEN Append(Tail(q), b)
    ELSE Append(q, b)

\* Variant: a write that waits until the ring has room.
QueueWriteReady_WaitsForRoom(q) == closed \/ Len(q) < queue_size

\* write never waits.
QueueWriteReady(q) == TRUE

\* Variant: a read that is not woken by close.
QueueReadReady_OnlyData == ringbuf # <<>>

\* read: returns when the queue is non-empty or closed.
QueueReadReady == ringbuf # <<>> \/ closed

\* Variant: a close that drops what is queued.
QueueAfterClose_Clears(q) == <<>>

\* close leaves the ring as it is.
QueueAfterClose(q) == q

\* Variant: a read that returns None as soon as the queue is closed.
QueueReadEnds_WhenClosed == closed

\* read returns None when dequeue found the ring empty (and the queue is
\* closed, or it would wait).
QueueReadEnds == ringbuf = <<>>

\* Variant: a read that leaves the buffer in the ring.
QueuePop_Peek(q) == [buf |-> Head(q), rest |-> q]

\* read of a non-empty queue: the oldest buffer is removed and returned.
QueuePop(q) == [buf |-> Head(q), rest |-> Tail(q)]

\* The queue on its own: callers write, read and close it in any order.
\* The k-th buffer written has id k.
DrvQWrite(bytes) ==
    /\ pc["main"] # "start"
    /\ drvRet.n < MaxDrvCalls
    /\ QueueWriteReady(ringbuf)
    /\ LET b == [id |-> Len(enqLog) + 1, bytes |-> bytes]
       IN /\ ringbuf' = QueueWrite(ringbuf, b)
          /\ enqLog' = Append(enqLog, b)
    /\ Returned("write", NoBuf)
    /\ UNCHANGED <<cfgVars, sigMask, win_size, obsVars, ttyVars, procVars, sigVars, childVars, rdVars,
                   sinkVars, closed, outBuf, stdoutLog, stdinVars>>

\* read: waits while the queue is empty and open; None is NoBuf.
DrvQRead ==
    /\ pc["main"] # "start"
    /\ drvRet.n < MaxDrvCalls
    /\ QueueReadReady
    /\ IF QueueReadEnds
       THEN Returned("read", NoBuf) /\ UNCHANGED ringbuf
       ELSE Returned("read", QueuePop(ringbuf).buf) /\ ringbuf' = QueuePop(ringbuf).rest
    /\ UNCHANGED <<cfgVars, sigMask, win_size, obsVars, ttyVars, procVars, sigVars, childVars, rdVars,
                   sinkVars, closed, enqLog, outBuf, stdoutLog, stdinVars>>

DrvQClose ==
    /\ pc["main"] # "start"
    /\ drvRet.n < MaxDrvCalls
    /\ closed' = TRUE
    /\ ringbuf' = QueueAfterClose(ringbuf)
    /\ ringAtClose' = IF closed THEN ringAtClose ELSE ringbuf
    /\ Returned("close", NoBuf)
    /\ UNCHANGED <<cfgVars, sigMask, win_size, dataAtTimeout, quitWaited, winSynced, ttyVars, procVars, sigVars, childVars, rdVars,
                   sinkVars, enqLog, outBuf, stdoutLog, stdinVars>>

\* ---------------------------------------------------------- main (main.rs)

\* main() up to the point where the threads run: before_start(Startup), the
\* sink, the formatter, the pty pair, the child, the queue (closed at once
\* with --silent), the stdin reader and the three threads, each of which
\* starts with the signal mask main has when it spawns it.
MainStartup ==
    /\ At("main", "start")
    /\ before_start(TRUE)
    /\ masterWin' = IF stdoutIsTty THEN stdoutWin ELSE masterWin
    /\ childSt' = "running"
    /\ closed' = silent
    /\ pc' = [t \in Threads |->
                CASE t = "main" -> "loop" [] t = "sig" -> "wait"
                  [] t = "out" -> "q_read" [] t = "in" -> "in_read"]
    /\ sigMask' = [t \in Threads |-> init_parent_signals(sigMask["main"])]
    /\ UNCHANGED <<cfgVars, drvVars, win_size, obsVars, stdoutWin, proc, exitCode, exitSig, exitVia, diag, termArg,
                   raiseArg, panicked, sigVars, last_status, final_status, childEvt,
                   childSigs, killLog, childOut, rdVars, sinkVars, ringbuf,
                   enqLog, outBuf, stdoutLog, stdinVars>>

\* The calls of main() before the threads run that can fail, in the order
\* of the code: init_parent_signals, save_tty_state and set_tty_mode (inside
\* before_start, the last two only if stdin is a terminal), the output
\* file, PtyProc::open, dup_master, InterruptibleReader::open(master),
\* spawn_child (prepare_parent, then fork) and
\* InterruptibleReader::open(stdin).
StartupStages ==
    {"signals", "tty_save", "tty_mode", "out_file", "pty_open", "dup_master",
     "reader_open", "prepare_parent", "fork", "stdin_open"}

\* The code each failure is passed to terminate! with: EXIT_COMMAND_FAILED
\* for a failed spawn_child (main.rs 744-746), EXIT_FAILURE for the rest.
StartupExitCode(stage) ==
    IF stage \in {"prepare_parent", "fork"} THEN EXIT_COMMAND_FAILED ELSE EXIT_FAILURE

\* main() fails at a stage of its startup: what was done before the stage
\* is done, then terminate!(code; message).
MainStartupFail(stage) ==
    /\ At("main", "start")
    /\ stage \in {"tty_save", "tty_mode"} => stdinIsTty
    /\ IF stage \in {"signals", "tty_save"}
       THEN UNCHANGED <<tty, TTY_STATE>>
       ELSE IF stage = "tty_mode"
       THEN TTY_STATE' = SavedAtStart(TRUE) /\ tty' = tty
       ELSE before_start(TRUE)
    /\ masterWin' = IF stage \in {"fork", "stdin_open"} /\ stdoutIsTty
                     THEN stdoutWin ELSE masterWin
    /\ childSt' = IF stage = "stdin_open" THEN "running" ELSE childSt
    /\ closed' = IF stage = "stdin_open" THEN silent ELSE closed
    /\ Terminate("main", StartupExitCode(stage), TRUE, "startup")
    /\ sigMask' = IF stage = "signals" THEN sigMask
                  ELSE [sigMask EXCEPT !["main"] = init_parent_signals(@)]
    /\ UNCHANGED <<cfgVars, drvVars, win_size, obsVars, stdoutWin, proc, exitCode, exitSig, exitVia, diag,
                   raiseArg, panicked, sigVars, last_status, final_status, childEvt,
                   childSigs, killLog, childOut, rdVars, sinkVars, ringbuf,
                   enqLog, outBuf, stdoutLog, stdinVars>>

\* Variant: a loop that hands the buffer to the queue without the sink write.
LineReady_QueueFirst == "enqueue"

\* What the loop does with a buffer that holds a header or a line: the
\* write to the output sink comes first, the queue after it.
LineReady == "sink_write"

\* Variant: a formatter that never asks for the header.
need_header_Never == FALSE

\* Formatter::need_header
need_header == header

\* pty_2_queue_and_file, top of the loop: a buffer is allocated; a pending
\* header is formatted into it (no read in this iteration), otherwise the
\* timestamp, if enabled, and read_line begins.
MainLoopTop ==
    /\ At("main", "loop")
    /\ allocs' = allocs + 1
    /\ lineSize' = 0
    /\ IF need_header
       THEN /\ buf' = [id |-> allocs + 1, bytes |-> <<"H", "NL">>]
            /\ header' = FALSE
            /\ readLog' = Append(readLog, buf')
            /\ Goto("main", LineReady)
       ELSE /\ buf' = [id |-> allocs + 1, bytes |-> IF ts THEN <<"T">> ELSE <<>>]
            /\ UNCHANGED <<header, readLog>>
            /\ Goto("main", "read_line")
    /\ UNCHANGED <<cfgVars, sigMask, drvVars, win_size, obsVars, ttyVars, proc, exitCode, exitSig, exitVia, diag, termArg,
                   raiseArg, panicked, sigVars, childVars, ptyBuf, ptyIn, mode, pipe,
                   sel, brBuf, sinkVars, queueVars, stdinVars>>

\* read_line over the BufReader: bytes already buffered are appended to the
\* line up to and including the first line feed, which completes the line.
MainReadLine ==
    /\ At("main", "read_line")
    /\ brBuf # <<>>
    /\ LET i == FirstNL(brBuf, 1)
           n == IF i > 0 THEN i ELSE Len(brBuf)
       IN /\ buf' = [buf EXCEPT !.bytes = @ \o SubSeq(brBuf, 1, n)]
          /\ brBuf' = SubSeq(brBuf, n + 1, Len(brBuf))
          /\ lineSize' = lineSize + n
          /\ IF i > 0
             THEN Goto("main", LineReady) /\ readLog' = Append(readLog, buf')
             ELSE UNCHANGED <<pc, readLog>>
    /\ UNCHANGED <<cfgVars, sigMask, drvVars, win_size, obsVars, ttyVars, proc, exitCode, exitSig, exitVia, diag, termArg,
                   raiseArg, panicked, sigVars, childVars, ptyBuf, ptyIn, mode, pipe,
                   sel, allocs, header, sinkVars, queueVars, stdinVars>>

\* Variant: a loop that goes on with what the buffer holds.
EofBreaks_Never(size) == FALSE

\* if size == 0 { break }
EofBreaks(size) == size = 0

\* End-of-file from the reader: read_line returns what it has; size 0 ends
\* the loop.
PtyEof ==
    IF EofBreaks(lineSize)
    THEN Goto("main", "close_queue") /\ UNCHANGED readLog
    ELSE Goto("main", LineReady) /\ readLog' = Append(readLog, buf)

\* read_imp of the pty reader, top of its loop (BufReader is empty).
PtyReadMode ==
    /\ At("main", "read_line")
    /\ brBuf = <<>>
    /\ sel["pty"] = ""
    /\ IF ReadsEof("pty")
       THEN PtyEof /\ UNCHANGED sel
       ELSE sel' = [sel EXCEPT !["pty"] = mode["pty"]] /\ UNCHANGED <<pc, readLog>>
    /\ UNCHANGED <<cfgVars, sigMask, drvVars, win_size, obsVars, ttyVars, proc, exitCode, exitSig, exitVia, diag, termArg,
                   raiseArg, panicked, sigVars, childVars, ptyBuf, ptyIn, mode, pipe,
                   brBuf, buf, lineSize, allocs, header, sinkVars, queueVars, stdinVars>>

\* read_imp of the pty reader: select returns; when the master is readable,
\* one read takes the bytes available, as many as the BufReader has room for.
PtySelect ==
    /\ At("main", "read_line")
    /\ sel["pty"] # ""
    /\ SelectReturns("pty", ptyBuf # <<>>)
    /\ pipe' = Drained("pty")
    /\ sel' = [sel EXCEPT !["pty"] = ""]
    /\ LET o == SelectOutcome("pty", ptyBuf # <<>>)
           n == IF Len(ptyBuf) < ReadMax THEN Len(ptyBuf) ELSE ReadMax
       IN /\ brBuf' = IF o = "data" THEN SubSeq(ptyBuf, 1, n) ELSE brBuf
          /\ ptyBuf' = IF o = "data" THEN SubSeq(ptyBuf, n + 1, Len(ptyBuf)) ELSE ptyBuf
          /\ IF o = "eof" THEN PtyEof ELSE UNCHANGED <<pc, readLog>>
    /\ UNCHANGED <<cfgVars, sigMask, drvVars, win_size, obsVars, ttyVars, proc, exitCode, exitSig, exitVia, diag, termArg,
                   raiseArg, panicked, sigVars, childVars, ptyIn, mode, buf, lineSize,
                   allocs, header, sinkVars, queueVars, stdinVars>>

\* out_writer.write_all(buf), synchronously.
MainSinkWrite ==
    /\ At("main", "sink_write")
    /\ sinkLog' = Append(sinkLog, buf)
    /\ lwBuf' = SinkWrite(buf.bytes).lw
    /\ fileBytes' = SinkWrite(buf.bytes).file
    /\ Goto("main", "enqueue")
    /\ UNCHANGED <<cfgVars, sigMask, drvVars, win_size, obsVars, ttyVars, proc, exitCode, exitSig, exitVia, diag, termArg,
                   raiseArg, panicked, sigVars, childVars, rdVars, queueVars, stdinVars>>

\* buf_queue.write(buf)
MainEnqueue ==
    /\ At("main", "enqueue")
    /\ QueueWriteReady(ringbuf)
    /\ ringbuf' = QueueWrite(ringbuf, buf)
    /\ enqLog' = Append(enqLog, buf)
    /\ buf' = NoBuf
    /\ Goto("main", "loop")
    /\ UNCHANGED <<cfgVars, sigMask, drvVars, win_size, obsVars, ttyVars, proc, exitCode, exitSig, exitVia, diag, termArg,
                   raiseArg, panicked, sigVars, childVars, ptyBuf, ptyIn, mode, pipe,
                   sel, brBuf, lineSize, allocs, readLog, header, sinkVars, closed,
                   outBuf, stdoutLog, stdinVars>>

\* buf_queue.close() after the loop.
MainCloseQueue ==
    /\ At("main", "close_queue")
    /\ closed' = TRUE
    /\ ringAtClose' = IF closed THEN ringAtClose ELSE ringbuf
    /\ ringbuf' = QueueAfterClose(ringbuf)
    /\ buf' = NoBuf
    /\ Goto("main", "join_sig")
    /\ UNCHANGED <<cfgVars, sigMask, drvVars, win_size, dataAtTimeout, quitWaited, winSynced, ttyVars, proc, exitCode, exitSig, exitVia, diag, termArg,
                   raiseArg, panicked, sigVars, childVars, ptyBuf, ptyIn, mode, pipe,
                   sel, brBuf, lineSize, allocs, readLog, header, sinkVars,
                   enqLog, outBuf, stdoutLog, stdinVars>>

\* process_signals_thread.join()
MainJoinSig ==
    /\ At("main", "join_sig")
    /\ pc["sig"] = "returned"
    /\ joined_interrupt' = pending_interrupt
    /\ Goto("main", "close_stdin")
    /\ UNCHANGED <<cfgVars, sigMask, drvVars, win_size, obsVars, ttyVars, proc, exitCode, exitSig, exitVia, diag, termArg,
                   raiseArg, panicked, sigPending, envEvents, pending_interrupt,
                   pending_stop, event_sig, childVars, rdVars, sinkVars, queueVars,
                   stdinVars>>

\* pty_2_stdout_thread.join() and stdin_2_pty_thread.join()
MainJoinOut ==
    /\ At("main", "join_out")
    /\ pc["out"] = "exited"
    /\ Goto("main", "join_in")
    /\ UNCHANGED <<cfgVars, sigMask, drvVars, win_size, obsVars, ttyVars, proc, exitCode, exitSig, exitVia, diag, termArg,
                   raiseArg, panicked, sigVars, childVars, rdVars, sinkVars, queueVars,
                   stdinVars>>

MainJoinIn ==
    /\ At("main", "join_in")
    /\ pc["in"] = "exited"
    /\ Goto("main", "forward")
    /\ UNCHANGED <<cfgVars, sigMask, drvVars, win_size, obsVars, ttyVars, proc, exitCode, exitSig, exitVia, diag, termArg,
                   raiseArg, panicked, sigVars, childVars, rdVars, sinkVars, queueVars,
                   stdinVars>>

\* Variant: the signal number alone as exit code.
ForwardCode_NoOffset(st) ==
    IF st.kind = "exited" THEN st.code
    ELSE IF st.kind = "signaled" THEN SigNum(st.sig)
    ELSE EXIT_COMMAND_FAILED

\* forward_exit_status (main.rs 616)
ForwardCode(st) ==
    IF st.kind = "exited" THEN st.code
    ELSE IF st.kind = "signaled" THEN EXIT_COMMAND_SIGNALED + SigNum(st.sig)
    ELSE EXIT_COMMAND_FAILED

\* A diagnostic is printed unless the command exited with EXIT_SUCCESS.
ForwardDiag(st) == ~(st.kind = "exited" /\ st.code = EXIT_SUCCESS)

\* Variant: the pending interrupt is self-delivered whatever the status.
ForwardRaises_AnyStatus(st, pending) == pending # ""

\* Variant: the pending interrupt is never self-delivered.
ForwardRaises_Never(st, pending) == FALSE

\* The pending interrupt is self-delivered when the command was signaled.
ForwardRaises(st, pending) == st.kind = "signaled" /\ pending # ""

MainForward ==
    /\ At("main", "forward")
    /\ IF last_status = NoStatus
       THEN /\ panicked' = TRUE
            /\ Goto("main", "panicked")
            /\ UNCHANGED <<termArg, raiseArg>>
       ELSE IF ForwardRaises(child_status, joined_interrupt)
       THEN /\ Raise("main", joined_interrupt, "fwd_exit")
            /\ UNCHANGED <<termArg, panicked>>
       ELSE /\ Terminate("main", ForwardCode(child_status), ForwardDiag(child_status),
                         "forward")
            /\ UNCHANGED <<raiseArg, panicked>>
    /\ UNCHANGED <<cfgVars, sigMask, drvVars, win_size, obsVars, ttyVars, proc, exitCode, exitSig, exitVia, diag, sigVars,
                   childVars, rdVars, sinkVars, queueVars, stdinVars>>

\* ------------------------------- end of process_signals (main.rs 471-488)

\* pty_reader.set_timeout(timeout): the mode is stored and the reader woken.
SigSetTimeout ==
    /\ At("sig", "set_timeout")
    /\ SetMode("pty", "Timeout")
    /\ pipe' = WakeReader("pty")
    /\ dataAtTimeout' = (ptyBuf # <<>>)
    /\ Goto("sig", "close_stdin")
    /\ UNCHANGED <<cfgVars, sigMask, drvVars, win_size, winSynced, ringAtClose, ttyVars, proc, exitCode, exitSig, exitVia, diag, termArg,
                   raiseArg, panicked, sigVars, childVars, ptyBuf, ptyIn, sel,
                   brBuf, buf, lineSize, allocs, readLog, header, sinkVars, queueVars,
                   stdinVars, quitWaited>>

\* stdin_reader.close(), called at the end of process_signals and by main
\* after it joined the signal thread.
AfterCloseStdin(t) == IF t = "sig" THEN "returned" ELSE "join_out"

CloseStdin(t) ==
    /\ At(t, "close_stdin")
    /\ SetMode("stdin", "Closed")
    /\ pipe' = WakeReader("stdin")
    /\ Goto(t, AfterCloseStdin(t))
    /\ UNCHANGED <<cfgVars, sigMask, drvVars, win_size, obsVars, ttyVars, proc, exitCode, exitSig, exitVia, diag, termArg,
                   raiseArg, panicked, sigVars, childVars, ptyBuf, ptyIn, sel,
                   brBuf, buf, lineSize, allocs, readLog, header, sinkVars, queueVars,
                   stdinVars>>

\* ------------------------------------------ queue_2_stdout (main.rs 541)

\* buf_queue.read(): the oldest buffer, or None when closed and empty.
OutRead ==
    /\ At("out", "q_read")
    /\ QueueReadReady
    /\ IF QueueReadEnds
       THEN /\ Goto("out", "exited")
            /\ UNCHANGED <<outBuf, ringbuf>>
       ELSE /\ outBuf' = QueuePop(ringbuf).buf
            /\ ringbuf' = QueuePop(ringbuf).rest
            /\ Goto("out", "q_write")
    /\ UNCHANGED <<cfgVars, sigMask, drvVars, win_size, obsVars, ttyVars, proc, exitCode, exitSig, exitVia, diag, termArg,
                   raiseArg, panicked, sigVars, childVars, rdVars, sinkVars, closed,
                   enqLog, stdoutLog, stdinVars>>

\* io::stdout().write_all(buf)
OutWrite ==
    /\ At("out", "q_write")
    /\ stdoutLog' = Append(stdoutLog, outBuf)
    /\ outBuf' = NoBuf
    /\ Goto("out", "q_read")
    /\ UNCHANGED <<cfgVars, sigMask, drvVars, win_size, obsVars, ttyVars, proc, exitCode, exitSig, exitVia, diag, termArg,
                   raiseArg, panicked, sigVars, childVars, rdVars, sinkVars, ringbuf,
                   closed, enqLog, stdinVars>>

\* The write to stdout fails: terminate!(EXIT_FAILURE; ...).
OutWriteFail ==
    /\ At("out", "q_write")
    /\ Terminate("out", EXIT_FAILURE, TRUE, "error")
    /\ UNCHANGED <<cfgVars, sigMask, drvVars, win_size, obsVars, ttyVars, proc, exitCode, exitSig, exitVia, diag,
                   raiseArg, panicked, sigVars, childVars, rdVars, sinkVars, queueVars,
                   stdinVars>>

\* --------------------------------------------- stdin_2_pty (main.rs 493)

\* End-of-file from the stdin reader: VEOF is sent to the child.
StdinEof ==
    /\ stdin_eof' = TRUE
    /\ inBuf' = <<"VEOF">>
    /\ Goto("in", "in_write")
    /\ UNCHANGED stdinBuf

\* The stdin pump has not taken a step yet: it has read nothing, written
\* nothing and has not drained the self-pipe.
InFresh ==
    /\ pc["in"] = "in_read"
    /\ sel["stdin"] = ""
    /\ ptyIn = <<>>
    /\ inBuf = <<>>
    /\ ~stdin_eof
    /\ mode["stdin"] = "Closed" => pipe["stdin"] > 0

\* stdin_2_pty, before its loop: dup_slave or get_tty_codes fails,
\* terminate!(EXIT_FAILURE; ...).
InProbeFail ==
    /\ At("in", "in_read")
    /\ InFresh
    /\ Terminate("in", EXIT_FAILURE, TRUE, "startup")
    /\ UNCHANGED <<cfgVars, sigMask, drvVars, win_size, obsVars, ttyVars, proc, exitCode, exitSig, exitVia, diag,
                   raiseArg, panicked, sigVars, childVars, rdVars, sinkVars, queueVars,
                   stdinVars>>

StdinReadMode ==
    /\ At("in", "in_read")
    /\ sel["stdin"] = ""
    /\ IF ReadsEof("stdin")
       THEN StdinEof /\ UNCHANGED sel
       ELSE /\ sel' = [sel EXCEPT !["stdin"] = mode["stdin"]]
            /\ UNCHANGED <<pc, stdinBuf, inBuf, stdin_eof>>
    /\ UNCHANGED <<cfgVars, sigMask, drvVars, win_size, obsVars, ttyVars, proc, exitCode, exitSig, exitVia, diag, termArg,
                   raiseArg, panicked, sigVars, childVars, ptyBuf, ptyIn, mode, pipe,
                   brBuf, buf, lineSize, allocs, readLog, header, sinkVars, queueVars>>

\* The terminal of stdin is in canonical mode: a read returns one line, or
\* 0 bytes when stdin has ended.
StdinSelect ==
    /\ At("in", "in_read")
    /\ sel["stdin"] # ""
    /\ SelectReturns("stdin", DataReady)
    /\ pipe' = Drained("stdin")
    /\ sel' = [sel EXCEPT !["stdin"] = ""]
    /\ LET o == SelectOutcome("stdin", DataReady)
       IN IF o = "data" /\ stdinBuf # <<>>
          THEN /\ inBuf' = Head(stdinBuf)
               /\ stdinBuf' = Tail(stdinBuf)
               /\ Goto("in", "in_write")
               /\ UNCHANGED stdin_eof
          ELSE IF o \in {"eof", "data"} THEN StdinEof
          ELSE UNCHANGED <<pc, stdinBuf, inBuf, stdin_eof>>
    /\ UNCHANGED <<cfgVars, sigMask, drvVars, win_size, obsVars, ttyVars, proc, exitCode, exitSig, exitVia, diag, termArg,
                   raiseArg, panicked, sigVars, childVars, ptyBuf, ptyIn, mode,
                   brBuf, buf, lineSize, allocs, readLog, header, sinkVars, queueVars>>

\* Variant: a pump that goes on reading after the end-of-file.
PumpLoops_Always(eof) == TRUE

\* while !stdin_eof
PumpLoops(eof) == ~eof

\* pty_writer.write_all(buf); the loop ends after the VEOF.
InWrite ==
    /\ At("in", "in_write")
    /\ drvIo.writable
    /\ ptyIn' = Append(ptyIn, inBuf)
    /\ inBuf' = <<>>
    /\ Goto("in", IF PumpLoops(stdin_eof) THEN "in_read" ELSE "exited")
    /\ UNCHANGED <<cfgVars, sigMask, drvVars, win_size, obsVars, ttyVars, proc, exitCode, exitSig, exitVia, diag, termArg,
                   raiseArg, panicked, sigVars, childVars, ptyBuf, mode, pipe, sel,
                   brBuf, buf, lineSize, allocs, readLog, header, sinkVars, queueVars,
                   stdinBuf, stdin_eof>>

\* ------------------------------------------------------------ environment

Alive == proc \in {"running", "stopped"}
ChildAlive == childSt \in {"running", "stopped"}

\* The child writes a chunk to its terminal.
ChildWrite(c, max) ==
    /\ Alive
    /\ childSt = "running"
    /\ envEvents.chunks < max
    /\ envEvents' = [envEvents EXCEPT !.chunks = @ + 1]
    /\ ptyBuf' = ptyBuf \o c
    /\ childOut' = childOut \o c
    /\ UNCHANGED <<cfgVars, sigMask, drvVars, win_size, obsVars, ttyVars, procVars, sigPending, pending_interrupt,
                   pending_stop, event_sig, joined_interrupt, last_status, final_status,
                   childSt, childEvt, childSigs, killLog, ptyIn, mode, pipe, sel, brBuf,
                   buf, lineSize, allocs, readLog, header, sinkVars, queueVars,
                   stdinVars>>

\* The child ends: the kernel keeps its status for waitpid and sends SIGCHLD.
ChildDies(st) ==
    /\ childSt' = "dead"
    /\ childEvt' = st
    /\ sigPending' = sigPending \cup {"CHILD"}

\* The child exits by itself.
ChildExit(c) ==
    /\ Alive
    /\ childSt = "running"
    /\ ChildDies(Exited(c))
    /\ UNCHANGED <<cfgVars, sigMask, drvVars, win_size, obsVars, ttyVars, procVars, envEvents, pending_interrupt, pending_stop,
                   event_sig, joined_interrupt, last_status, final_status, childSigs,
                   killLog, childOut, rdVars, sinkVars, queueVars, stdinVars>>

\* The child is killed by a signal nobody of this session sent (a fault).
ChildCrash ==
    /\ Alive
    /\ childSt = "running"
    /\ ChildDies(Signaled("SEGV"))
    /\ UNCHANGED <<cfgVars, sigMask, drvVars, win_size, obsVars, ttyVars, procVars, envEvents, pending_interrupt, pending_stop,
                   event_sig, joined_interrupt, last_status, final_status, childSigs,
                   killLog, childOut, rdVars, sinkVars, queueVars, stdinVars>>

\* A signal sent with kill_child acts on the child.  KILL and STOP cannot
\* be caught; a deadly signal kills the child, or the child handles it and
\* exits, or the child ignores it; a stopped child acts on nothing but
\* KILL and CONT.
ChildReact(s) ==
    /\ Alive
    /\ ChildAlive
    /\ s \in childSigs
    /\ childSigs' = childSigs \ {s}
    /\ CASE s = "KILL" -> ChildDies(Signaled("KILL"))
         [] s = "STOP" ->
              /\ childSt' = "stopped"
              /\ childEvt' = IF childSt = "running" THEN Stopped ELSE childEvt
              /\ sigPending' = IF childSt = "running" THEN sigPending \cup {"CHILD"}
                               ELSE sigPending
         [] s = "CONT" ->
              /\ childSt' = "running"
              /\ childEvt' = IF childSt = "stopped" THEN Continued ELSE childEvt
              /\ sigPending' = IF childSt = "stopped" THEN sigPending \cup {"CHILD"}
                               ELSE sigPending
         [] OTHER ->
              /\ childSt = "running"
              /\ \E o \in {"die", "exit", "ignore"} :
                    IF o = "die" THEN ChildDies(Signaled(s))
                    ELSE IF o = "exit" THEN ChildDies(Exited(SigNum(s)))
                    ELSE UNCHANGED <<childSt, childEvt, sigPending>>
    /\ UNCHANGED <<cfgVars, sigMask, drvVars, win_size, obsVars, ttyVars, procVars, envEvents, pending_interrupt, pending_stop,
                   event_sig, joined_interrupt, last_status, final_status,
                   killLog, childOut, rdVars, sinkVars, queueVars, stdinVars>>

\* The user (or the terminal driver) sends a signal to the parent.  A
\* signal every thread blocks stays pending for sigwait; a stop or deadly
\* signal some thread does not block takes its default action at once.
\* CONT discards pending stop signals and resumes a stopped process, a stop
\* signal discards a pending CONT.  With WINCH the terminal has a new size.
UserSignal(s) ==
    /\ Alive
    /\ pc["main"] # "start"
    /\ envEvents.signals < MaxUserSignals
    /\ envEvents' = [envEvents EXCEPT !.signals = @ + 1]
    /\ sigPending' = IF s = "CONT" THEN (sigPending \ {"TSTP", "TTIN", "TTOU"}) \cup {s}
                     ELSE IF IsStop(s)
                     THEN (sigPending \ {"CONT"}) \cup (IF TakenAtOnce(s) THEN {} ELSE {s})
                     ELSE IF TakenAtOnce(s) THEN sigPending
                     ELSE sigPending \cup {s}
    /\ proc' = IF s = "CONT" THEN "running"
               ELSE IF TakenAtOnce(s) THEN (IF IsStop(s) THEN "stopped" ELSE "killed")
               ELSE proc
    /\ exitSig' = IF TakenAtOnce(s) /\ IsDeadly(s) THEN s ELSE exitSig
    /\ exitVia' = IF TakenAtOnce(s) /\ IsDeadly(s) THEN "signal" ELSE exitVia
    /\ stdoutWin' \in IF s = "WINCH" /\ stdoutIsTty THEN WinSizes \ {stdoutWin}
                     ELSE {stdoutWin}
    /\ winSynced' = (winSynced \/ masterWin = stdoutWin')
    /\ UNCHANGED <<cfgVars, sigMask, drvVars, win_size, dataAtTimeout, quitWaited, ringAtClose, tty, TTY_STATE, masterWin, exitCode, diag,
                   pc, termArg, raiseArg, panicked, pending_interrupt, pending_stop,
                   event_sig, joined_interrupt, childVars, rdVars, sinkVars, queueVars,
                   stdinVars>>

\* The user types a line.
UserType ==
    /\ Alive
    /\ pc["main"] # "start"
    /\ envEvents.lines < MaxStdinLines
    /\ envEvents' = [envEvents EXCEPT !.lines = @ + 1]
    /\ stdinBuf' = Append(stdinBuf, <<"x", "NL">>)
    /\ UNCHANGED <<cfgVars, sigMask, drvVars, win_size, obsVars, ttyVars, procVars, sigPending, pending_interrupt,
                   pending_stop, event_sig, joined_interrupt, childVars, rdVars, sinkVars,
                   queueVars, inBuf, stdin_eof>>

\* The input queue of the pty fills up with what the child has not read:
\* a write to the master waits.
MasterFull ==
    /\ pc["main"] # "start"
    /\ ptyIn # <<>>
    /\ drvIo.writable
    /\ drvIo' = [drvIo EXCEPT !.writable = FALSE]
    /\ UNCHANGED <<cfgVars, sigMask, drvRet, drvPend, win_size, obsVars, ttyVars, procVars, sigVars,
                   childVars, rdVars, sinkVars, queueVars, stdinVars>>

\* The child reads its input: the master accepts bytes again.
ChildReadsInput ==
    /\ childSt = "running"
    /\ ~drvIo.writable
    /\ drvIo' = [drvIo EXCEPT !.writable = TRUE]
    /\ UNCHANGED <<cfgVars, sigMask, drvRet, drvPend, win_size, obsVars, ttyVars, procVars, sigVars,
                   childVars, rdVars, sinkVars, queueVars, stdinVars>>

\* ------------------------------------------------------------------- Next

\* The threads of a recording session.
Recording ==
    \/ MainStartup
    \/ MainLoopTop
    \/ MainReadLine
    \/ PtyReadMode
    \/ PtySelect
    \/ MainSinkWrite
    \/ MainEnqueue
    \/ MainCloseQueue
    \/ MainJoinSig
    \/ MainJoinOut
    \/ MainJoinIn
    \/ MainForward
    \/ \E t \in {"sig", "main"} : CloseStdin(t)
    \/ \E t \in Threads : TermRestore(t) \/ TermExit(t)
    \/ SigChild
    \/ SigSetTimeout
    \/ OutRead
    \/ OutWrite
    \/ OutWriteFail
    \/ StdinReadMode
    \/ StdinSelect
    \/ InWrite
    \/ \E c \in ChildExitCodes : ChildExit(c)
    \/ ChildCrash

\* The signal state machine and the child's reactions to kill_child.
Signalling ==
    \/ \E t \in {"sig", "main"} : RaiseRestore(t) \/ RaiseDeliver(t) \/ RaiseWakeup(t)
    \/ \E s \in EVENT_SIGNALS :
          SigInterruptFirst(s) \/ SigTerminal(s) \/ SigStopFirst(s) \/ SigStopSecond(s)
    \/ SigQuitWait
    \/ SigQuitCheck
    \/ SigDropCont
    \/ SigContinue
    \/ \E s \in {"KILL", "STOP", "CONT", "TERM", "INT", "HUP", "QUIT"} : ChildReact(s)
    \/ \E s \in UserSignals : UserSignal(s)

\* Signal sessions: the parent runs on a terminal, the user sends signals,
\* the child writes little.
Init == InitWith({FALSE}, {FALSE}, {TRUE})

Next ==
    \/ Recording
    \/ Signalling
    \/ \E c \in Chunks : ChildWrite(c, MaxSigChunks)

Spec == Init /\ [][Next]_vars

\* Recording sessions: nobody sends a signal to the parent and nobody types;
\* the child writes and ends by itself.
InitData == InitWith(BOOLEAN, BOOLEAN, {TRUE})

NextData ==
    \/ Recording
    \/ \E c \in Chunks : ChildWrite(c, MaxChunks)

SpecData == InitData /\ [][NextData]_vars

\* The steps of each thread of a recording session.
MainThread ==
    \/ MainStartup \/ MainLoopTop \/ MainReadLine \/ PtyReadMode \/ PtySelect
    \/ MainSinkWrite \/ MainEnqueue \/ MainCloseQueue \/ MainJoinSig
    \/ CloseStdin("main") \/ MainJoinOut \/ MainJoinIn \/ MainForward
    \/ TermRestore("main") \/ TermExit("main")

SigThread ==
    \/ SigChild \/ SigSetTimeout \/ CloseStdin("sig")
    \/ TermRestore("sig") \/ TermExit("sig")

OutThread == OutRead \/ OutWrite \/ OutWriteFail \/ TermRestore("out") \/ TermExit("out")

InThread == StdinReadMode \/ StdinSelect \/ InWrite \/ TermRestore("in") \/ TermExit("in")

\* The scheduler runs every thread that can take a step; the child and the
\* failure of a write are not obliged to anything.
FairThreads ==
    /\ WF_vars(MainThread)
    /\ WF_vars(SigThread)
    /\ WF_vars(OutThread)
    /\ WF_vars(InThread)

FairSpecData == SpecData /\ FairThreads

\* Sessions with and without --header and --ts.
InitHeader == InitCfg(BOOLEAN, BOOLEAN, {FALSE}, {FALSE}, {TRUE}, {TRUE})

SpecHeader == InitHeader /\ [][NextData]_vars

\* Sessions in which a call of the startup may fail, stdin a terminal or not.
InitStartup == InitTerm({FALSE}, {FALSE}, BOOLEAN, {TRUE})

NextStartup ==
    \/ Recording
    \/ \E c \in Chunks : ChildWrite(c, MaxSigChunks)
    \/ \E stage \in StartupStages : MainStartupFail(stage)
    \/ InProbeFail

SpecStartup == InitStartup /\ [][NextStartup]_vars

\* The child record on its own: after the startup a caller waits for the
\* child and sends it signals in any order while the child stops, continues,
\* exits or is killed.
NextChild ==
    \/ MainStartup
    \/ \E m \in {"Hang", "NoHang"} : DrvWait(m)
    \/ \E s \in {"STOP", "CONT", "INT"} : DrvKill(s)
    \/ \E s \in {"STOP", "CONT", "INT"} : ChildReact(s)
    \/ \E c \in ChildExitCodes : ChildExit(c)
    \/ ChildCrash

SpecChild == Init /\ [][NextChild]_vars

\* The buffer queue on its own, of any capacity, open after the startup.
InitQueue ==
    InitSized(1..MaxQueueSize, {FALSE}, {FALSE}, {FALSE}, {FALSE}, {TRUE}, {TRUE})

NextQueue ==
    \/ MainStartup
    \/ \E bytes \in Chunks : DrvQWrite(bytes)
    \/ DrvQRead
    \/ DrvQClose

SpecQueue == InitQueue /\ [][NextQueue]_vars

\* The ANSI-strip writer on its own, over a file that may fail.
NextStrip ==
    \/ MainStartup
    \/ \E bytes \in StripBufs : DrvStripWrite(bytes)
    \/ FileFails

SpecStrip == Init /\ [][NextStrip]_vars

\* The channels on their own, open after the startup.
NextChannel ==
    \/ MainStartup
    \/ \E h \in Channels : \E m \in ModeCalls(h) : DrvStore(h, m)
    \/ \E h \in Channels : DrvWake(h)
    \/ DrvReadMode
    \/ DrvSelect
    \/ DrvWriteMode
    \/ DrvWriteSelect
    \/ UserType
    \/ FdEof
    \/ FdWritable

SpecChannel == Init /\ [][NextChannel]_vars

\* The scheduler runs a call in progress: the caller of close or
\* set_timeout that has stored its mode, the read and the write.
FairChannel ==
    /\ \A h \in Channels : WF_vars(DrvWake(h))
    /\ WF_vars(DrvReadMode)
    /\ WF_vars(DrvSelect)
    /\ WF_vars(DrvWriteMode)
    /\ WF_vars(DrvWriteSelect)

FairSpecChannel == SpecChannel /\ FairChannel

\* Typing sessions: the user types on stdin, a terminal or not.
InitTyping == InitWith({TRUE}, {FALSE}, BOOLEAN)

NextTyping ==
    \/ Recording
    \/ \E c \in Chunks : ChildWrite(c, MaxSigChunks)
    \/ UserType
    \/ FdEof
    \/ MasterFull
    \/ ChildReadsInput

SpecTyping == InitTyping /\ [][NextTyping]_vars

FairSpecTyping == SpecTyping /\ FairThreads

\* Resizing sessions: the window of the parent's terminal changes, stdout
\* being a terminal or not.
InitResize == InitTerm({FALSE}, {FALSE}, {TRUE}, BOOLEAN)

NextResize ==
    \/ Recording
    \/ \E c \in Chunks : ChildWrite(c, MaxSigChunks)
    \/ UserSignal("WINCH")
    \/ SigResize
    \/ SigResizeSet
    \/ SigResizeFail

SpecResize == InitResize /\ [][NextResize]_vars

\* ------------------------------------------------------------ properties

BufsOf(log) == {log[i] : i \in 1..Len(log)}
ButLast(log) == SubSeq(log, 1, Len(log) - 1)

\* The pty-reader loop is over: read_line returned 0.
LoopLeft == pc["main"] \notin {"start", "loop", "read_line", "sink_write", "enqueue"}

\* Position of a buffer in the sequence written to the sink.
SinkPos(b) == CHOOSE k \in 1..Len(sinkLog) : sinkLog[k] = b

\* What the ANSI stripper lets through.
RECURSIVE Stripped(_)
Stripped(bytes) ==
    IF bytes = <<>> THEN <<>>
    ELSE IF Head(bytes) = "e" THEN Stripped(Tail(bytes))
    ELSE <<Head(bytes)>> \o Stripped(Tail(bytes))

\* C1: every line the pty-reader loop read from the master is written to
\* the output sink exactly once and in the order read (the sink holds the
\* lines read, no buffer twice, and their bytes are a prefix of what the
\* child wrote); the write to the sink is complete before the same buffer is
\* handed to the queue; and no buffer is in the queue, held by the stdout
\* pump or on stdout that was not written to the sink before.
C1_SinkBeforeQueue ==
    /\ sinkLog = IF pc["main"] = "sink_write" THEN ButLast(readLog) ELSE readLog
    /\ enqLog = IF pc["main"] = "enqueue" THEN ButLast(sinkLog) ELSE sinkLog
    /\ \A i, j \in 1..Len(sinkLog) : i # j => sinkLog[i].id # sinkLog[j].id
    /\ IsPrefix(Flatten(sinkLog), childOut)
    /\ BufsOf(ringbuf) \cup BufsOf(stdoutLog) \cup ({outBuf} \ {NoBuf}) \subseteq BufsOf(sinkLog)

\* Two lines were written to the sink, the second is about to be enqueued
\* and the first is on stdout already.
C1_Witness ==
    /\ pc["main"] = "enqueue"
    /\ Len(sinkLog) = 2
    /\ Len(enqLog) = 1
    /\ stdoutLog = <<sinkLog[1]>>

\* C2: no data is lost after the child's exit: when the pty-reader has seen
\* end-of-file, nothing is left unread on the master or in its BufReader,
\* and every byte the child wrote, the bytes still readable on the master
\* when the signal processor set the read timeout among them, has been
\* written to the output sink.
C2_DrainedBeforeEof ==
    LoopLeft =>
        /\ ptyBuf = <<>>
        /\ brBuf = <<>>
        /\ Flatten(sinkLog) = childOut

\* Bytes were readable on the master when the timeout was set, and the
\* pty-reader has seen end-of-file since.
C2_Witness ==
    /\ LoopLeft
    /\ dataAtTimeout
    /\ Flatten(sinkLog) = childOut

\* C3: when the session ends through forward_exit_status, every byte the
\* pty-reader wrote to the output sink (less the escape sequences, without
\* --raw) is in the output file at process exit, a last line without a line
\* feed included.
C3_SinkBytesInFile ==
    (proc = "exited" /\ exitVia = "forward") =>
        fileBytes = IF raw THEN Flatten(sinkLog) ELSE Stripped(Flatten(sinkLog))

C5_WitnessClosed ==
    /\ At("main", "enqueue")
    /\ closed

\* C6: if the termios of stdin was saved at startup, stdin has the saved
\* termios whenever the process has ended, by process::exit or by a signal
\* it delivered to itself.
C6_TermiosRestoredAtExit ==
    (proc \in {"exited", "killed"} /\ TTY_STATE.some) => tty.icanon = TTY_STATE.icanon

\* forward_exit_status has decided what to do.
MainForwarded ==
    pc["main"] \in {"term_restore", "term_exit", "raise_restore", "raise_deliver",
                    "raise_wakeup"}

\* C7: if the child's final status is a normal exit with code c, then
\* forward_exit_status goes to terminate!(c), an interrupt pending or not,
\* with a diagnostic exactly when c is not 0, and the parent's exit code is c.
C7_ExitCodeForwarded ==
    (MainForwarded /\ last_status.kind = "exited") =>
        /\ pc["main"] \in {"term_restore", "term_exit"}
        /\ termArg["main"] = [code |-> last_status.code, diag |-> last_status.code # 0,
                              via |-> "forward"]
        /\ (proc = "exited" /\ exitVia = "forward") =>
              (exitCode = last_status.code /\ diag = (last_status.code # 0))

\* The child answered the forwarded interrupt by exiting with a code other
\* than 0 and the parent has exited.
C7_Witness ==
    /\ proc = "exited"
    /\ exitVia = "forward"
    /\ last_status.kind = "exited"
    /\ last_status.code # 0
    /\ joined_interrupt # ""
    /\ exitCode = last_status.code

\* C8: if the child's final status is "killed by signal n" and no interrupt
\* is pending, forward_exit_status goes to terminate!(128 + n) and the
\* parent's exit code is 128 + n.
C8_SignaledExitCode ==
    (MainForwarded /\ last_status.kind = "signaled" /\ joined_interrupt = "") =>
        /\ pc["main"] \in {"term_restore", "term_exit"}
        /\ termArg["main"].code = 128 + SigNum(last_status.sig)
        /\ (proc = "exited" /\ exitVia = "forward") =>
              exitCode = 128 + SigNum(last_status.sig)

\* The child died of SIGSEGV and the parent has exited with 139.
C8_Witness ==
    /\ proc = "exited"
    /\ exitVia = "forward"
    /\ last_status = Signaled("SEGV")
    /\ joined_interrupt = ""
    /\ exitCode = 139

\* C9: if the child's final status is "killed by a signal" and
\* pending_interrupt is Some(s), forward_exit_status calls raise_signal(s)
\* and never terminate!(128 + n): the terminal is restored when s is
\* delivered, and the delivery ends the parent, killed by s with no exit
\* code.
C9_DiesByPendingInterrupt ==
    (MainForwarded /\ last_status.kind = "signaled" /\ joined_interrupt # "") =>
        /\ pc["main"] \in {"raise_restore", "raise_deliver", "raise_wakeup"}
        /\ raiseArg["main"].sig = joined_interrupt
        /\ pc["main"] # "raise_restore" => tty.icanon = TTY_STATE.icanon
        /\ pc["main"] = "raise_wakeup" =>
              (proc = "killed" /\ exitSig = joined_interrupt /\ exitCode = -1)

\* The child was killed by a signal after the user's interrupt and the
\* parent died of the interrupt.
C9_Witness ==
    /\ proc = "killed"
    /\ exitVia = "forward"
    /\ last_status.kind = "signaled"
    /\ joined_interrupt # ""
    /\ exitSig = joined_interrupt
    /\ TTY_STATE.some
    /\ tty.icanon = TTY_STATE.icanon

\* C10: when the signal processor takes TERM, INT or HUP while
\* pending_interrupt is None, it sends that signal to the child's group,
\* once and nothing else, sets pending_interrupt to it and waits for the
\* next signal; the parent keeps running and the pty-reader is left alone.
\* KILL is sent only after an Interrupt/Quit event was handled as terminal.
C10_FirstInterruptForwarded ==
    /\ [][\A s \in {"TERM", "INT", "HUP"} :
            (At("sig", "wait") /\ pending_interrupt = "" /\ s \in sigPending
                /\ s \notin sigPending') =>
                /\ killLog' = Append(killLog, s)
                /\ childSigs' = KernelKill(childSigs, s)
                /\ pending_interrupt' = s
                /\ pc' = pc
                /\ proc' = "running"
                /\ UNCHANGED <<mode, pipe, closed, last_status, final_status>>]_vars
    /\ []((\E i \in 1..Len(killLog) : killLog[i] = "KILL") => event_sig # "")

\* The first interrupt was forwarded; the signal processor waits and the
\* pty-reader reads on.
C10_Witness ==
    /\ Running
    /\ pending_interrupt # ""
    /\ killLog = <<pending_interrupt>>
    /\ pc["sig"] = "wait"
    /\ pc["main"] = "read_line"
    /\ final_status = NoStatus

Last(log) == log[Len(log)]

\* The signal processor is in raise_signal(s) for the terminal event s.
SigRaisesTerminal ==
    /\ pc["sig"] \in {"raise_restore", "raise_deliver", "raise_wakeup"}
    /\ IsDeadly(raiseArg["sig"].sig)

\* C11: a Quit event, or an Interrupt received while pending_interrupt is
\* set, is terminal.  The step that takes it sends the signal to the child
\* exactly when pending_interrupt is None and sends nothing otherwise; while
\* the signal processor is in raise_signal for it, the signal raised is the
\* one received, and the child has been observed exited/signaled by
\* wait_child or the last signal sent to it is KILL; the delivery ends the
\* parent, killed by that signal.
C11_TerminalEvent ==
    /\ [][\A s \in {"TERM", "INT", "HUP", "QUIT"} :
            (At("sig", "wait") /\ s \in sigPending /\ s \notin sigPending'
                /\ (s = "QUIT" \/ pending_interrupt # "")) =>
                /\ killLog' = IF pending_interrupt = "" THEN Append(killLog, s) ELSE killLog
                /\ pc'["sig"] \in {"quit_wait", "quit_check"}
                /\ event_sig' = s
                /\ pending_interrupt' = pending_interrupt]_vars
    /\ [](SigRaisesTerminal =>
            /\ raiseArg["sig"].sig = event_sig
            /\ IsFinal(final_status) \/ (killLog # <<>> /\ Last(killLog) = "KILL")
            /\ pc["sig"] = "raise_wakeup" => (proc = "killed" /\ exitSig = event_sig))

\* A second interrupt ended the session: the first was sent to the child
\* once, the second was not, KILL was, and the parent died of the second.
C11_Witness ==
    /\ proc = "killed"
    /\ exitVia = "signal"
    /\ pending_interrupt # ""
    /\ exitSig = event_sig
    /\ killLog = <<pending_interrupt, "KILL">>

\* C12: KILL is sent to the child only after the signal processor has
\* waited for any signal or the quit timeout (wait_signal(Some(timeout))).
C12_KillAfterQuitWait ==
    (\E i \in 1..Len(killLog) : killLog[i] = "KILL") => quitWaited

\* The signal processor, waiting for the next signal, takes s (the
\* environment does nothing in such a step).
SigTakes(s) ==
    /\ At("sig", "wait")
    /\ s \in sigPending
    /\ s \notin sigPending'
    /\ envEvents' = envEvents

SigSuspending == pc["sig"] \in {"raise_deliver", "raise_wakeup"} /\ IsStop(raiseArg["sig"].sig)

\* C14: when the signal processor is about to deliver a stop signal to the
\* parent, and while the parent is stopped, stdin has the termios saved at
\* startup.  Delivery is followed by before_start in wakeup mode and by
\* nothing else: that step enables canonical mode on stdin, keeps the saved
\* termios and the pending signals as they are, and only then does the
\* signal processor go on (to drop_signal(CONT), before the next event).
C14_TerminalHandedBack ==
    /\ []((SigSuspending /\ (At("sig", "raise_deliver") \/ proc = "stopped")) =>
            (TTY_STATE.some /\ tty.icanon = TTY_STATE.icanon))
    /\ [][(pc["sig"] = "raise_deliver" /\ IsStop(raiseArg["sig"].sig)) =>
            pc'["sig"] \in {"raise_deliver", "raise_wakeup"}]_vars
    /\ [][(SigSuspending /\ pc["sig"] = "raise_wakeup" /\ pc'["sig"] # "raise_wakeup") =>
            /\ proc = "running"
            /\ tty'.icanon
            /\ TTY_STATE' = TTY_STATE
            /\ sigPending' = sigPending
            /\ pc'["sig"] = "drop_cont"]_vars

\* The parent was suspended and continued: raise_signal has returned with
\* canonical mode on, the saved termios being the non-canonical one.
C14_Witness ==
    /\ pc["sig"] = "drop_cont"
    /\ proc = "running"
    /\ tty.icanon
    /\ TTY_STATE.some
    /\ ~TTY_STATE.icanon

\* C15 as stated: when the signal processor takes a WINCH (stdout a
\* terminal), the master and stdout have had the same winsize at some time
\* since it took the previous one.
C15_SyncedBetweenResizes == [][(SigTakes("WINCH") /\ stdoutIsTty) => winSynced]_vars

\* C15, amended: the step that takes a WINCH reads the winsize of stdout if
\* stdout is a terminal, and leaves the master alone if it is not; the
\* handler then either sets the master to the size it read, after which
\* the two sizes are equal unless stdout was resized in between and a
\* further WINCH is pending, or it fails and the process is terminated with
\* EXIT_FAILURE and a diagnostic.
C15_ResizeCopied ==
    /\ [][SigTakes("WINCH") =>
            /\ masterWin' = masterWin
            /\ IF stdoutIsTty
               THEN win_size' = stdoutWin /\ pc'["sig"] = "resize_set"
               ELSE pc' = pc]_vars
    /\ [][(pc["sig"] = "resize_set" /\ pc'["sig"] # "resize_set") =>
            \/ /\ pc'["sig"] = "wait"
               /\ masterWin' = win_size
               /\ masterWin' = stdoutWin' \/ "WINCH" \in sigPending'
            \/ /\ pc'["sig"] = "term_restore"
               /\ termArg'["sig"] = [code |-> EXIT_FAILURE, diag |-> TRUE, via |-> "error"]]_vars
    /\ [](pc["sig"] = "resize_set" => stdoutIsTty)

\* Two resizes were handled one after the other and the master has the
\* size of stdout.
C15_Witness ==
    /\ stdoutIsTty
    /\ pc["sig"] = "wait"
    /\ envEvents.signals = 2
    /\ "WINCH" \notin sigPending
    /\ masterWin = stdoutWin
    /\ masterWin # "small"

IsSuffix(s, t) == Len(s) <= Len(t) /\ SubSeq(t, Len(t) - Len(s) + 1, Len(t)) = s

\* main is past the join of the stdout pump.
PumpJoined ==
    \/ pc["main"] \in {"join_in", "forward", "panicked"}
    \/ MainForwarded /\ (termArg["main"].via = "forward" \/ raiseArg["main"].ret = "fwd_exit")
    \/ exitVia = "forward"

\* C16: the stdout pump has exited only if the queue is closed and empty
\* and the pump holds no buffer; main is past the join of the pump (and so
\* in forward_exit_status, or the process has ended through it) only if the
\* pump has exited; and then the buffers that were in the queue when main
\* closed it are the last buffers written to stdout, in their order.
C16_QueueDrainedAtShutdown ==
    /\ pc["out"] = "exited" => (closed /\ ringbuf = <<>> /\ outBuf = NoBuf)
    /\ PumpJoined => (pc["out"] = "exited" /\ IsSuffix(ringAtClose, stdoutLog))

\* The process has ended through forward_exit_status, and a buffer that was
\* still in the queue when it was closed is on stdout.
C16_Witness ==
    /\ proc = "exited"
    /\ exitVia = "forward"
    /\ ringAtClose # <<>>
    /\ IsSuffix(ringAtClose, stdoutLog)

\* The session has ended through forward_exit_status with every thread
\* joined, or a failed write to stdout has ended it.
SessionEnded ==
    /\ proc = "exited"
    /\ \/ /\ exitVia = "forward"
          /\ pc["sig"] = "returned"
          /\ pc["out"] = "exited"
          /\ pc["in"] = "exited"
          /\ mode["pty"] = "Timeout"
          /\ LoopLeft
       \/ exitVia = "error" /\ termArg["out"] # NoTerm

\* C17: once wait_child has reported the child exited or signaled to the
\* signal processor, then, every thread being scheduled as long as it can
\* take a step, the process ends: through forward_exit_status, the signal
\* processor returned, the pty-reader at end-of-file in timeout mode and
\* both pumps exited, unless a write to stdout failed and terminate! ended
\* the process before.
C17_SessionTerminates == (final_status # NoStatus) ~> SessionEnded

\* The child was signaled, the threads were joined and the process has
\* ended through forward_exit_status while stdin still had its reader
\* closed under it.
C17_Witness ==
    /\ proc = "exited"
    /\ exitVia = "forward"
    /\ final_status.kind = "signaled"
    /\ pc["sig"] = "returned" /\ pc["out"] = "exited" /\ pc["in"] = "exited"
    /\ mode["stdin"] = "Closed"
    /\ stdin_eof

\* The lines of a byte sequence: each ends with its line feed, the last one
\* may lack it.
RECURSIVE Lines(_)
Lines(bytes) ==
    IF bytes = <<>> THEN <<>>
    ELSE IF FirstNL(bytes, 1) = 0 THEN <<bytes>>
    ELSE <<SubSeq(bytes, 1, FirstNL(bytes, 1))>>
            \o Lines(SubSeq(bytes, FirstNL(bytes, 1) + 1, Len(bytes)))

SinkLines == [i \in 1..Len(sinkLog) |-> sinkLog[i].bytes]

\* C18: with --silent the queue is closed from the moment the threads
\* exist, it never holds a buffer, the stdout pump never holds one and goes
\* from its first read to its exit, and nothing is written to stdout; with
\* or without --silent the lines written to the sink are the first lines of
\* what the child wrote, and all its lines once the pty-reader has seen
\* end-of-file, so they do not depend on the option.
C18_SilentWritesNothing ==
    /\ (silent /\ pc["main"] # "start") =>
            /\ closed
            /\ ringbuf = <<>>
            /\ outBuf = NoBuf
            /\ stdoutLog = <<>>
            /\ pc["out"] \in {"q_read", "exited"}
    /\ pc["main"] = "start" => \A t \in Threads \ {"main"} : pc[t] = "unborn"
    /\ IsPrefix(SinkLines, Lines(childOut))
    /\ LoopLeft => SinkLines = Lines(childOut)

\* A silent session is over: two lines are in the sink, none on stdout.
C18_Witness ==
    /\ silent
    /\ proc = "exited"
    /\ exitVia = "forward"
    /\ Len(sinkLog) = 2
    /\ Len(enqLog) = 2
    /\ stdoutLog = <<>>
    /\ pc["out"] = "exited"

IsHeader(b) == b.bytes = <<"H", "NL">>

\* No buffer of the log but the first is a header.
HeaderOnlyFirst(log) == \A i \in 2..Len(log) : ~IsHeader(log[i])

\* C19: as long as the header flag is set the loop has produced nothing,
\* and the step that clears it is the loop iteration that produces the
\* header as the first buffer, leaves the master and the BufReader unread
\* and goes on to the sink write; once clear the flag stays clear and no
\* header is produced; so the header is in no log but as the first buffer
\* (sink, queue, stdout), and with --ts every other buffer begins with a
\* timestamp.
C19_HeaderOnceAndFirst ==
    /\ [](header => (readLog = <<>> /\ sinkLog = <<>> /\ enqLog = <<>> /\ stdoutLog = <<>>))
    /\ [][header =>
            \/ header' /\ readLog' = readLog
            \/ /\ At("main", "loop")
               /\ ~header'
               /\ readLog' = <<buf'>>
               /\ IsHeader(buf')
               /\ pc'["main"] = "sink_write"
               /\ UNCHANGED <<ptyBuf, brBuf, sel, pipe>>]_vars
    /\ [][~header => (~header' /\ (readLog' = readLog \/ ~IsHeader(Last(readLog'))))]_vars
    /\ [](HeaderOnlyFirst(readLog) /\ HeaderOnlyFirst(sinkLog) /\ HeaderOnlyFirst(enqLog)
            /\ HeaderOnlyFirst(stdoutLog))
    /\ [](\A i \in 1..Len(sinkLog) :
            /\ (i = 1 /\ IsHeader(readLog[1])) => IsHeader(sinkLog[1])
            /\ (ts /\ ~IsHeader(sinkLog[i])) => Head(sinkLog[i].bytes) = "T")
    /\ []((enqLog # <<>> /\ IsHeader(readLog[1])) => IsHeader(enqLog[1]))

\* The header and two timestamped lines went to the sink, the header first,
\* and the header was the first buffer on stdout.
C19_Witness ==
    /\ ~header
    /\ ts
    /\ Len(sinkLog) = 3
    /\ IsHeader(sinkLog[1])
    /\ Head(sinkLog[2].bytes) = "T"
    /\ stdoutLog # <<>>
    /\ IsHeader(stdoutLog[1])

\* C20: a failure of a system call of the startup is passed to terminate!
\* with EXIT_FAILURE; the process that ended that way has exit code
\* EXIT_FAILURE, has printed a diagnostic, and stdin has the termios it had
\* when the process started.
C20_StartupFailureFatal ==
    /\ \A t \in Threads : termArg[t].via = "startup" => termArg[t].code = EXIT_FAILURE
    /\ (proc = "exited" /\ exitVia = "startup") =>
            /\ exitCode = EXIT_FAILURE
            /\ diag
            /\ ~tty.icanon

\* C21: kill_child is called only while no final status is recorded (every
\* step that adds to the kill log starts with final_status = None), and the
\* signal processor never hits the panic of kill_child.
C21_NoKillAfterFinal ==
    /\ [][killLog' # killLog => final_status = NoStatus]_vars
    /\ [](pc["sig"] # "panicked")

\* Two signals were sent to the child, its final status was recorded after
\* them, and the signal processor has left its loop.
C21_Witness ==
    /\ Len(killLog) = 2
    /\ final_status # NoStatus
    /\ pc["sig"] \in {"set_timeout", "close_stdin", "returned"}

\* C22: final_status becomes set only by a wait_child that returns an
\* exited or signaled status, the one the kernel had to report, and then it
\* is also the last status; once set it never changes, the last status
\* stays equal to it, and every wait_child returns it and leaves the
\* kernel's side alone; a wait_child that returns stopped or continued
\* records it as the last status and leaves final_status unset.
C22_FinalStatusLatch ==
    /\ [][final_status # NoStatus =>
            /\ UNCHANGED <<final_status, last_status, childEvt>>
            /\ drvRet' # drvRet => (drvRet'.op = "wait_child" /\ drvRet'.val = final_status)]_vars
    /\ [][(final_status = NoStatus /\ final_status' # NoStatus) =>
            /\ IsFinal(final_status')
            /\ final_status' = childEvt
            /\ drvRet'.n = drvRet.n + 1
            /\ drvRet'.op = "wait_child"
            /\ drvRet'.val = final_status']_vars
    /\ [](final_status # NoStatus => last_status = final_status)
    /\ [][(last_status' # last_status /\ ~IsFinal(last_status')) =>
            /\ last_status'.kind \in {"stopped", "continued"}
            /\ last_status' = childEvt
            /\ final_status' = NoStatus
            /\ drvRet'.n = drvRet.n + 1
            /\ drvRet'.op = "wait_child"
            /\ drvRet'.val = last_status']_vars

\* The child was stopped and then killed, the final status was latched by
\* the third call and the fourth, a wait_child, has returned it.
C22_Witness ==
    /\ final_status.kind = "signaled"
    /\ last_status = final_status
    /\ drvRet = [op |-> "wait_child", val |-> final_status, n |-> 4]
    /\ childSt = "dead"
    /\ killLog = <<"STOP", "INT">>

\* The step is the return of a call of op by a caller.
Called(op) == drvRet'.n = drvRet.n + 1 /\ drvRet'.op = op

\* A caller can make a further call.
CanCall == pc["main"] # "start" /\ drvRet.n < MaxDrvCalls

\* C23: a read that returns takes the oldest buffer whenever the queue is
\* not empty, closed or not, and returns None exactly when the queue is
\* empty and closed, leaving it empty; a read can return unless the queue
\* is empty and open, and then it cannot; and after every write to an open
\* queue and after every close a read can return.
C23_ReadOldestOrNone ==
    /\ [][Called("read") =>
            /\ ringbuf # <<>> => (drvRet'.val = Head(ringbuf) /\ ringbuf' = Tail(ringbuf))
            /\ ringbuf = <<>> => (closed /\ drvRet'.val = NoBuf /\ ringbuf' = <<>>)
            /\ closed' = closed]_vars
    /\ [](CanCall => ((ENABLED DrvQRead) <=> ~(ringbuf = <<>> /\ ~closed)))
    /\ [][((Called("write") /\ ~closed) \/ Called("close")) =>
            (CanCall' => (ENABLED DrvQRead)')]_vars

\* Two buffers were written, the queue was closed, and a read has returned
\* the first of them, the second still being queued.
C23_Witness ==
    /\ closed
    /\ Len(enqLog) = 2
    /\ drvRet.op = "read"
    /\ drvRet.val = enqLog[1]
    /\ ringbuf = <<enqLog[2]>>
    /\ drvRet.n = 4

\* C24: closed never becomes false again; a close of a closed queue changes
\* nothing; the first close leaves the queued buffers as they are; a write
\* to a closed queue leaves them as they are; and while the queue is closed
\* it holds the tail of what it held when it was closed, each read taking
\* the oldest of these until none is left.
C24_CloseLatch ==
    /\ [][closed => closed']_vars
    /\ [][(Called("close") /\ closed) => UNCHANGED <<ringbuf, closed, enqLog>>]_vars
    /\ [][(Called("close") /\ ~closed) => (closed' /\ ringbuf' = ringbuf)]_vars
    /\ [][(Called("write") /\ closed) => UNCHANGED <<ringbuf, closed>>]_vars
    /\ [](closed => IsSuffix(ringbuf, ringAtClose))
    /\ [][(Called("read") /\ closed /\ ringbuf # <<>>) =>
            (drvRet'.val = Head(ringbuf) /\ ringbuf' = Tail(ringbuf))]_vars

\* Two buffers were queued when the queue was closed; a write after the
\* close was discarded and a read has then returned the first buffer.
C24_Witness ==
    /\ closed
    /\ Len(ringAtClose) = 2
    /\ Len(enqLog) = 3
    /\ drvRet.op = "read"
    /\ drvRet.val = ringAtClose[1]
    /\ ringbuf = Tail(ringAtClose)

\* C25: the queue never holds more buffers than its capacity; a write to a
\* full, open queue removes the oldest buffer and appends the new one; a
\* write to an open queue with room appends the new one; and the queue
\* holds, in write order, a run of consecutive written buffers that ends
\* with the most recent buffer written while the queue was open, whenever
\* it holds any.
C25_BoundedKeepsNewest ==
    /\ [](Len(ringbuf) <= queue_size)
    /\ [][(Called("write") /\ ~closed /\ Len(ringbuf) = queue_size) =>
            ringbuf' = Append(Tail(ringbuf), enqLog'[Len(enqLog')])]_vars
    /\ [][(Called("write") /\ ~closed /\ Len(ringbuf) < queue_size) =>
            ringbuf' = Append(ringbuf, enqLog'[Len(enqLog')])]_vars
    /\ [](\A i \in 1..Len(ringbuf) - 1 : ringbuf[i + 1].id = ringbuf[i].id + 1)
    /\ [](\A i \in 1..Len(ringbuf) : enqLog[ringbuf[i].id] = ringbuf[i])
    /\ [][(Called("read") /\ ringbuf' # <<>>) => Last(ringbuf') = Last(ringbuf)]_vars
    /\ [][(Called("write") /\ ~closed) => Last(ringbuf') = enqLog'[Len(enqLog')]]_vars

\* A queue of capacity 2 was written three times and read once: the first
\* buffer was evicted, the second was read and the third is queued.
C25_Witness ==
    /\ queue_size = 2
    /\ ~closed
    /\ Len(enqLog) = 3
    /\ drvRet.op = "read"
    /\ drvRet.val = enqLog[2]
    /\ ringbuf = <<enqLog[3]>>

\* C26: whatever close and set_timeout calls are made on the reader, and
\* however they interleave, a closed reader stays closed, a set_timeout on
\* a closed reader included, and a reader with a timeout never goes back to
\* no timeout.
C26_ModeMonotone ==
    /\ [][mode["stdin"] = "Closed" => mode'["stdin"] = "Closed"]_vars
    /\ [][mode["stdin"] = "Timeout" => mode'["stdin"] \in {"Timeout", "Closed"}]_vars
    /\ [](mode["stdin"] \in {"NoTimeout", "Timeout", "Closed"})

\* close and then set_timeout have returned: one byte only was written to
\* the self-pipe, so that set_timeout found the reader closed.
C26_Witness ==
    /\ mode["stdin"] = "Closed"
    /\ drvRet.op = "set_timeout"
    /\ drvRet.n = 2
    /\ pipe["stdin"] = 1
    /\ drvPend["stdin"] = <<>>
    /\ drvIo.rd = "idle"

\* C27: a step that stores a mode writes no byte and leaves its caller with
\* the byte to write; a byte is written to the self-pipe one at a time, by
\* a caller that has stored its mode, whose call then returns Ok; a call
\* returns only so or on finding the channel closed; and close and
\* set_timeout on a closed channel return Ok without writing a byte or
\* touching the mode.
C27_OneByteAfterStore ==
    /\ [][\A h \in Channels :
            mode'[h] # mode[h] =>
                /\ pipe' = pipe
                /\ Len(drvPend'[h]) = Len(drvPend[h]) + 1
                /\ drvRet' = drvRet]_vars
    /\ [][\A h \in Channels :
            pipe'[h] > pipe[h] =>
                /\ pipe'[h] = pipe[h] + 1
                /\ Len(drvPend[h]) = Len(drvPend'[h]) + 1
                /\ mode' = mode
                /\ Called("close") \/ Called("set_timeout")
                /\ drvRet'.val = OkRet]_vars
    /\ [][(Called("close") \/ Called("set_timeout")) =>
            /\ drvRet'.val = OkRet
            /\ \E h \in Channels :
                  \/ pipe'[h] = pipe[h] + 1
                  \/ mode[h] = "Closed" /\ pipe' = pipe /\ mode' = mode /\ drvPend' = drvPend]_vars
    /\ [][\A h \in Channels :
            (Len(drvPend'[h]) > Len(drvPend[h])) => mode[h] # "Closed"]_vars

\* The reader was closed by a first call, which wrote its byte, and a
\* second close and a set_timeout then returned without a byte; the writer
\* was closed twice, with one byte.
C27_Witness ==
    /\ mode["stdin"] = "Closed"
    /\ mode["writer"] = "Closed"
    /\ pipe["stdin"] = 1
    /\ pipe["writer"] = 1
    /\ drvRet.n = 5
    /\ drvRet.op = "set_timeout"
    /\ drvPend = [h \in Channels |-> <<>>]

\* A read of the reader begins at this step.
ReadStarts == drvIo.rd = "idle" /\ (drvIo'.rd # "idle" \/ Called("read"))

\* No close of the reader is between its two halves.
CloseReturned == \A i \in 1..Len(drvPend["stdin"]) : drvPend["stdin"][i] # "close"

\* C28: a read that is in select when the reader is closed returns: once
\* close has returned select can return, and the read does return; and a
\* read that starts once the reader is closed returns 0 bytes at once,
\* without entering select and without taking anything from the data fd.
C28_CloseAbortsReads ==
    /\ []((sel["stdin"] # "" /\ mode["stdin"] = "Closed" /\ CloseReturned) =>
            (pipe["stdin"] > 0 /\ ENABLED DrvSelect))
    /\ ((sel["stdin"] # "" /\ mode["stdin"] = "Closed") ~> (drvIo.rd = "idle"))
    /\ [][(ReadStarts /\ mode["stdin"] = "Closed") =>
            /\ Called("read")
            /\ drvRet'.val = ReadRet(<<>>)
            /\ drvIo'.rd = "idle"
            /\ UNCHANGED <<stdinBuf, sel, pipe>>]_vars

\* close has returned and a read that started after it has returned 0
\* bytes, a line being available on the data fd.
C28_Witness ==
    /\ mode["stdin"] = "Closed"
    /\ drvRet = [op |-> "read", val |-> ReadRet(<<>>), n |-> 2]
    /\ pipe["stdin"] = 1
    /\ drvPend["stdin"] = <<>>
    /\ stdinBuf # <<>>
    /\ ~drvIo.eof

\* A read is in select, without a timeout, and close has returned.
C28_WitnessBlocked ==
    /\ sel["stdin"] = "NoTimeout"
    /\ mode["stdin"] = "Closed"
    /\ drvRet.op = "close"
    /\ drvPend["stdin"] = <<>>
    /\ stdinBuf = <<>>
    /\ ~drvIo.eof

\* Select returns to the call on channel h at this step, the self-pipe
\* having fired.
PipeFired(h) == sel[h] # "" /\ sel'[h] = "" /\ pipe[h] > 0

\* C29: when select returns with the self-pipe fired, the pipe is drained
\* and the call goes back to the mode before it touches the data fd: the
\* read takes nothing from its data fd and the write puts nothing on its
\* data fd at that wakeup; and with the channel closed by then the read
\* does not return data and the write does not write, whether or not the
\* data fd is ready.
C29_PipeFiredRechecksMode ==
    /\ [][PipeFired("stdin") =>
            /\ pipe'["stdin"] = 0
            /\ stdinBuf' = stdinBuf
            /\ ~Called("read")]_vars
    /\ [][PipeFired("writer") =>
            /\ pipe'["writer"] = 0
            /\ drvIo'.written = drvIo.written
            /\ ~Called("write")]_vars
    /\ [][(PipeFired("stdin") /\ mode["stdin"] = "Closed") =>
            (Called("read") => drvRet'.val = ReadRet(<<>>))]_vars
    /\ [][(PipeFired("writer") /\ mode["writer"] = "Closed") =>
            drvIo'.written = drvIo.written]_vars

\* Select returns to the read at this step.
SelectReturned == sel["stdin"] # "" /\ sel'["stdin"] = ""

\* The read returns end-of-file, 0 bytes, at this step.
ReadEof == Called("read") /\ drvRet'.val = ReadRet(<<>>)

\* Select returns because the timeout elapsed with neither fd ready.
Elapsed == sel["stdin"] = "Timeout" /\ pipe["stdin"] = 0 /\ ~DataReady

\* C30, as stated: with a timeout set a read returns end-of-file only when
\* select returned with neither the self-pipe nor the data fd ready; when
\* select returns with data available the data is read and returned; a
\* wakeup with the self-pipe alone ready sends the read back to the mode,
\* and the wait that follows has the timeout of the mode at that moment;
\* and a read returns end-of-file only when the reader is closed or the
\* timeout elapsed.
C30_EofOnlyOnTimeout ==
    /\ [][(ReadEof /\ mode["stdin"] = "Timeout") => (SelectReturned /\ Elapsed)]_vars
    /\ [][(SelectReturned /\ stdinBuf # <<>>) =>
            (Called("read") /\ drvRet'.val = ReadRet(Head(stdinBuf)) /\ stdinBuf' = Tail(stdinBuf))]_vars
    /\ [][(SelectReturned /\ pipe["stdin"] > 0 /\ ~DataReady) =>
            (drvRet' = drvRet /\ drvIo'.rd = "top" /\ pipe'["stdin"] = 0)]_vars
    /\ [][(drvIo.rd = "top" /\ sel["stdin"] = "" /\ sel'["stdin"] # "") =>
            sel'["stdin"] = mode["stdin"]]_vars
    /\ [][ReadEof => (mode["stdin"] = "Closed" \/ (SelectReturned /\ Elapsed))]_vars

\* The data fd is at its end-of-file: select finds it ready and its read
\* returns 0 bytes.
FdAtEof == SelectReturned /\ stdinBuf = <<>> /\ drvIo.eof

\* C30, amended: as stated, but a read also returns end-of-file when the
\* data fd itself is at end-of-file, with or without a timeout.
C30_EofOnTimeoutOrFdEof ==
    /\ [][(ReadEof /\ mode["stdin"] = "Timeout") =>
            ((SelectReturned /\ Elapsed) \/ FdAtEof)]_vars
    /\ [][(SelectReturned /\ stdinBuf # <<>>) =>
            (Called("read") /\ drvRet'.val = ReadRet(Head(stdinBuf)) /\ stdinBuf' = Tail(stdinBuf))]_vars
    /\ [][(SelectReturned /\ pipe["stdin"] > 0 /\ ~DataReady) =>
            (drvRet' = drvRet /\ drvIo'.rd = "top" /\ pipe'["stdin"] = 0)]_vars
    /\ [][(drvIo.rd = "top" /\ sel["stdin"] = "" /\ sel'["stdin"] # "") =>
            sel'["stdin"] = mode["stdin"]]_vars
    /\ [][ReadEof =>
            \/ mode["stdin"] = "Closed" /\ ~SelectReturned
            \/ SelectReturned /\ Elapsed
            \/ FdAtEof]_vars

\* A read with the timeout set has returned end-of-file, no data having
\* arrived and the data fd not being at its end-of-file.
C30_Witness ==
    /\ drvRet = [op |-> "read", val |-> ReadRet(<<>>), n |-> 2]
    /\ mode["stdin"] = "Timeout"
    /\ envEvents.lines = 0
    /\ ~drvIo.eof
    /\ drvIo.rd = "idle"

\* A write of the writer begins at this step.
WriteStarts == drvIo.wr = "idle" /\ (drvIo'.wr # "idle" \/ Called("write"))

\* No close of the writer is between its two halves.
WriterCloseReturned == drvPend["writer"] = <<>>

\* C31: a write that begins once the writer is closed returns at once,
\* reports its whole buffer written and puts nothing on the data fd, which
\* may be writable or not; and a write that is in select when the writer
\* is closed returns: once close has returned select can return, and the
\* write does return.
C31_CloseDiscardsWrites ==
    /\ [][(WriteStarts /\ mode["writer"] = "Closed") =>
            /\ Called("write")
            /\ drvRet'.val = WriteRet(WriteBuf)
            /\ drvIo'.written = drvIo.written
            /\ drvIo'.wr = "idle"
            /\ UNCHANGED <<sel, pipe>>]_vars
    /\ []((sel["writer"] # "" /\ mode["writer"] = "Closed" /\ WriterCloseReturned) =>
            (pipe["writer"] > 0 /\ ENABLED DrvWriteSelect))
    /\ ((sel["writer"] # "" /\ mode["writer"] = "Closed") ~> (drvIo.wr = "idle"))

\* close has returned and a write that began after it has returned, the
\* data fd being writable and nothing having been written to it.
C31_Witness ==
    /\ mode["writer"] = "Closed"
    /\ drvRet = [op |-> "write", val |-> WriteRet(WriteBuf), n |-> 2]
    /\ pipe["writer"] = 1
    /\ drvPend["writer"] = <<>>
    /\ drvIo.writable
    /\ drvIo.written = 0
    /\ drvIo.wr = "idle"

\* A write is in select on a data fd that is not writable and close has
\* returned.
C31_WitnessBlocked ==
    /\ sel["writer"] = "Open"
    /\ mode["writer"] = "Closed"
    /\ drvRet.op = "close"
    /\ drvPend["writer"] = <<>>
    /\ ~drvIo.writable

\* The read of the master returns end-of-file to the pty-reader loop at
\* this step: read_line returns without a byte taken from the BufReader or
\* from the master.
PtyEofStep ==
    /\ pc["main"] = "read_line"
    /\ pc'["main"] \in {"close_queue", LineReady}
    /\ brBuf' = brBuf
    /\ ptyBuf' = ptyBuf

\* The signal processor is past its loop.
SigLoopLeft == pc["sig"] \in {"close_stdin", "returned"}

\* main is past the pty-reader loop and on its way to forward_exit_status.
RecordingStopped ==
    pc["main"] \in {"close_queue", "join_sig", "close_stdin", "join_out", "join_in", "forward"}

\* C32: the pty reader is never closed and its mode is changed only by the
\* signal processor, once, after its loop, the final status being latched;
\* the pty-reader loop gets end-of-file only with the timeout set, the
\* final status latched and the signal processor past its loop; and main
\* is past the pty-reader loop only if the child has ended.
C32_EofAfterFinalStatus ==
    /\ [](mode["pty"] # "Closed")
    /\ [][mode'["pty"] # mode["pty"] =>
            /\ pc["sig"] = "set_timeout"
            /\ pc'["sig"] = "close_stdin"
            /\ mode'["pty"] = "Timeout"
            /\ IsFinal(final_status)]_vars
    /\ [][PtyEofStep =>
            /\ mode["pty"] = "Timeout"
            /\ IsFinal(final_status)
            /\ SigLoopLeft]_vars
    /\ [](RecordingStopped => (childSt = "dead" /\ IsFinal(final_status) /\ SigLoopLeft))

\* The child was stopped and continued and then exited; main has got
\* end-of-file and left the pty-reader loop.
C32_Witness ==
    /\ pc["main"] = "close_queue"
    /\ Running
    /\ final_status.kind = "exited"
    /\ killLog # <<>>
    /\ mode["pty"] = "Timeout"

\* C33: when main is at forward_exit_status the child record holds a last
\* status, it is the latched final status and it is exited or signaled; so
\* main never panics in child_status, and what forward_exit_status asks
\* for is the exit with the child's code, with 128 + its signal, or the
\* self-delivery of the pending interrupt, never the exit of the branch
\* for a status that is neither.
C33_ForwardReadsFinal ==
    /\ [](At("main", "forward") =>
            /\ last_status # NoStatus
            /\ child_status = final_status
            /\ IsFinal(child_status))
    /\ [](pc["main"] # "panicked")
    /\ [][(pc["main"] = "forward" /\ pc'["main"] # "forward") =>
            \/ /\ child_status.kind = "exited"
               /\ termArg'["main"] = [code |-> child_status.code,
                                        diag |-> child_status.code # EXIT_SUCCESS,
                                        via |-> "forward"]
            \/ /\ child_status.kind = "signaled"
               /\ joined_interrupt = ""
               /\ termArg'["main"] = [code |-> EXIT_COMMAND_SIGNALED + SigNum(child_status.sig),
                                        diag |-> TRUE, via |-> "forward"]
            \/ /\ child_status.kind = "signaled"
               /\ joined_interrupt # ""
               /\ raiseArg'["main"].sig = joined_interrupt]_vars

\* main is at forward_exit_status, the child having been killed by a
\* signal that the parent did not send.
C33_Witness ==
    /\ At("main", "forward")
    /\ final_status.kind = "signaled"
    /\ joined_interrupt = ""
    /\ killLog = <<>>

VEOF == <<"VEOF">>

\* C34: the stdin pump writes VEOF to the master at most once and nothing
\* after it; the write of VEOF is the last step of the pump; the pump
\* exits in no other way; and the first end-of-file the stdin reader
\* returns, stdin having ended or the reader being closed, makes VEOF the
\* next thing the pump writes.
C34_VeofOnceAndLast ==
    /\ [](\A i \in 1..Len(ptyIn) : ptyIn[i] = VEOF => i = Len(ptyIn))
    /\ [][ptyIn' # ptyIn =>
            /\ ptyIn' = Append(ptyIn, inBuf)
            /\ (inBuf = VEOF) <=> (pc'["in"] = "exited")]_vars
    /\ [](pc["in"] = "exited" => (ptyIn # <<>> /\ Last(ptyIn) = VEOF))
    /\ [][(pc["in"] = "in_read" /\ pc'["in"] = "in_write") =>
            IF (sel["stdin"] = "" /\ mode["stdin"] = "Closed")
               \/ (sel["stdin"] # "" /\ stdinBuf = <<>>)
            THEN inBuf' = VEOF /\ stdin_eof' /\ stdinBuf' = stdinBuf
            ELSE inBuf' = Head(stdinBuf) /\ ~stdin_eof']_vars
    /\ [](stdin_eof => (inBuf = VEOF \/ pc["in"] = "exited"))

\* stdin ended after a line was typed: the pump has forwarded the line and
\* then VEOF and has exited, the stdin reader being still open.
C34_Witness ==
    /\ ptyIn = << <<"x", "NL">>, VEOF >>
    /\ pc["in"] = "exited"
    /\ drvIo.eof
    /\ mode["stdin"] # "Closed"

\* The stdin reader was closed at shutdown and the pump has written VEOF.
C34_WitnessClosed ==
    /\ ptyIn = <<VEOF>>
    /\ pc["in"] = "exited"
    /\ ~drvIo.eof
    /\ mode["stdin"] = "Closed"

\* The process has ended.
ProcessEnded == proc = "exited"

\* C35: once the stdin reader is closed, every thread being scheduled as
\* long as it can take a step, the stdin pump exits (or the process has
\* ended before), whether the pump was reading stdin or writing to the
\* master when the reader was closed; and main, at the join of the pump,
\* gets past it.
C35_PumpExitsAfterClose ==
    /\ ((mode["stdin"] = "Closed") ~> (pc["in"] = "exited" \/ ProcessEnded))
    /\ ((pc["main"] = "join_in") ~> (pc["main"] # "join_in" \/ ProcessEnded))

\* The same, for the sessions in which the master accepts what the pump
\* writes.
C35_PumpExitsUnlessMasterFull ==
    (mode["stdin"] = "Closed") ~>
        (pc["in"] = "exited" \/ ProcessEnded \/ (pc["in"] = "in_write" /\ ~drvIo.writable))

\* The stdin reader is closed, the child has ended, and the pump is at
\* its write of VEOF to a master that does not accept bytes.
C35_PumpStuck ==
    /\ mode["stdin"] = "Closed"
    /\ childSt = "dead"
    /\ pc["in"] = "in_write"
    /\ inBuf = VEOF
    /\ ~drvIo.writable
    /\ pc["main"] = "join_in"

\* Thread t is inside deliver_signal(s), between the unblock and the block.
SelfDelivering(t, s) == pc[t] = "raise_wakeup" /\ raiseArg[t].sig = s

\* The signal processor is in wait_signal or in drop_signal.
SigWaits == pc["sig"] \in {"wait", "quit_wait", "drop_cont"}

\* The threads an instance of s sent to the process can go to: those that
\* do not block it and the one that waits for it.
Receivers(s) ==
    {t \in Threads : ThreadLives(t) /\ s \notin sigMask[t]}
        \cup (IF SigWaits THEN {"sig"} ELSE {})

\* C36: from the moment the threads exist every thread blocks every event
\* signal, except the one signal a thread is delivering to itself; no event
\* signal has two threads it can go to, and a stop or deadly signal that is
\* pending in the running process is blocked by every thread; a pending
\* signal is taken by the signal processor in wait_signal or drop_signal and
\* by nobody else, but for the signal a self-delivery unblocks, or it is
\* discarded by the kernel when the user sends CONT or a stop signal.
C36_SignalsOwnedBySigThread ==
    /\ [](pc["main"] # "start" =>
            \A t \in Threads : \A s \in EVENT_SIGNALS :
                s \notin sigMask[t] => SelfDelivering(t, s))
    /\ [](\A s \in EVENT_SIGNALS : Cardinality(Receivers(s)) <= 1)
    /\ [](\A s \in sigPending : Running /\ (IsStop(s) \/ IsDeadly(s)) => ~Unblocked(s))
    /\ [][(sigPending \ sigPending' # {} /\ envEvents' = envEvents) =>
            \/ /\ SigWaits
               /\ \A t \in Threads \ {"sig"} : pc'[t] = pc[t]
            \/ \E t \in Threads :
                  /\ pc[t] = "raise_deliver"
                  /\ SelfDelivering(t, raiseArg[t].sig)'
                  /\ sigPending \ sigPending' = {raiseArg[t].sig}]_vars

\* The parent was suspended by the signal processor delivering TSTP to
\* itself and was continued; the signal processor is still inside
\* deliver_signal, with TSTP unblocked in its mask and in no other, and the
\* CONT that resumed the process is pending for its drop_signal.
C36_Witness ==
    /\ Running
    /\ SelfDelivering("sig", "TSTP")
    /\ "TSTP" \notin sigMask["sig"]
    /\ \A t \in Threads \ {"sig"} : sigMask[t] = EVENT_SIGNALS
    /\ "CONT" \in sigPending
    /\ pc["main"] = "loop"

\* The last STOP sent to the child was followed at once by an interrupt or
\* quit signal and by no CONT since: the signal processor has handled an
\* Interrupt or Quit while pending_stop was set and the parent had not
\* suspended itself.
InterruptWhileStopPending ==
    \E i \in 1..(Len(killLog) - 1) :
        /\ killLog[i] = "STOP"
        /\ IsDeadly(killLog[i + 1])
        /\ \A j \in (i + 1)..Len(killLog) : killLog[j] \notin {"STOP", "CONT"}

\* The signal processor is in raise_signal with a stop signal.
SigSuspends ==
    /\ pc["sig"] \in {"raise_restore", "raise_deliver", "raise_wakeup"}
    /\ IsStop(raiseArg["sig"].sig)

\* C37: once an Interrupt or a Quit was handled while a stop was pending,
\* the signal processor does not suspend the parent: it is never in
\* raise_signal with a stop signal.
C37_InterruptBeforeSuspend == InterruptWhileStopPending => ~SigSuspends

\* A quit was handled while a stop was pending and the parent dies by it
\* without having been suspended.
C37_QuitTakesPriority ==
    (InterruptWhileStopPending /\ \E i \in 1..Len(killLog) : killLog[i] = "QUIT")
        => ~SigSuspends

\* The signal processor returns from a raise_signal that suspended the
\* parent.
SigResumes ==
    /\ pc["sig"] = "raise_wakeup"
    /\ IsStop(raiseArg["sig"].sig)
    /\ pc'["sig"] # "raise_wakeup"

\* The step sends CONT to the child's group, sets pending_stop to None and
\* takes the signal processor back to wait_signal.
ContinuesChild ==
    /\ killLog' = Append(killLog, "CONT")
    /\ pending_stop' = ""
    /\ pc'["sig"] = "wait"

\* C38: when raise_signal returns after a suspension the signal processor
\* goes to drop_signal(CONT) and from there, in one step and before it
\* waits for a signal again, sends CONT to the child's group and sets
\* pending_stop to None; the step that takes a CONT does the same; and the
\* step that takes a CHILD while pending_stop is None does not enter
\* raise_signal, whatever wait_child reports.
C38_ResumeContinuesChild ==
    /\ [][SigResumes => (pc'["sig"] = "drop_cont" /\ pending_stop' = pending_stop
                            /\ killLog' = killLog)]_vars
    /\ [][(pc["sig"] = "drop_cont" /\ pc'["sig"] # "drop_cont") => ContinuesChild]_vars
    /\ [][SigTakes("CONT") => ContinuesChild]_vars
    /\ [][(SigTakes("CHILD") /\ pending_stop = "") =>
            (pc'["sig"] \in {"wait", "set_timeout"} /\ proc' = proc
                /\ raiseArg' = raiseArg)]_vars
    /\ [](SigSuspends => pending_stop # "")

\* A Continue event has sent CONT to the child and set pending_stop to
\* None before the stop of the child was reported; the signal processor
\* then took the CHILD event, wait_child reported the child stopped, and it
\* waits for the next signal with the parent running.
C38_Witness ==
    /\ pc["sig"] = "wait"
    /\ Running
    /\ last_status.kind = "stopped"
    /\ pending_stop = ""
    /\ \E i \in 1..Len(killLog) : killLog[i] = "CONT"

\* C39: when some write_all to the line writer fails during a write call
\* of the stripper, the call returns the error, or the error is held in
\* last_err for the next call to return.
C39_NoErrorLost ==
    [][Called("strip_write") =>
        (Advance(StripperState, drvRet'.val.buf, drvIo.fails).failed =>
            (drvRet'.val.res = "Err" \/ drvIo'.last_err))]_vars

\* An error of the last byte of the buffer is returned by the call.
C39_LastByteErrorReturned ==
    [][Called("strip_write") =>
        (Advance(StripperState, drvRet'.val.buf, drvIo.fails).last_err
            <=> drvRet'.val.res = "Err")]_vars

\* The buffer holds more than a prefix: a header, or child data after the
\* timestamp (if timestamps are enabled) that begins it.
HoldsData(b) ==
    \/ IsHeader(b)
    \/ /\ Len(b.bytes) > (IF ts THEN 1 ELSE 0)
       /\ ts => (b.bytes[1] = "T" /\ b.bytes[2] # "T")
       /\ \A i \in 1..Len(b.bytes) : b.bytes[i] = "T" => (ts /\ i = 1)

\* C40: every buffer written to the sink, put into the queue or written to
\* stdout is a header or holds child data, after one timestamp if
\* timestamps are enabled: none is empty and none holds a timestamp only;
\* and the step in which read_line returns 0 writes nothing, puts nothing
\* into the queue and leaves the loop with a buffer that holds no more than
\* the timestamp formatted at the top of the iteration.
C40_NoBareTimestamp ==
    /\ [](\A i \in 1..Len(sinkLog) : HoldsData(sinkLog[i]))
    /\ [](\A i \in 1..Len(enqLog) : HoldsData(enqLog[i]))
    /\ [](\A i \in 1..Len(stdoutLog) : HoldsData(stdoutLog[i]))
    /\ [][(PtyEofStep /\ lineSize = 0) =>
            /\ pc'["main"] = "close_queue"
            /\ buf.bytes = (IF ts THEN <<"T">> ELSE <<>>)
            /\ UNCHANGED <<buf, readLog, sinkLog, enqLog, ringbuf>>]_vars
    /\ [](LoopLeft => (sinkLog = readLog /\ (~silent => enqLog = readLog)))

\* With timestamps, a timestamped line was written to the sink and to the
\* queue, and the loop was left at end-of-file with a buffer that holds
\* the timestamp of the last iteration and nothing else.
C40_Witness ==
    /\ ts
    /\ LoopLeft
    /\ buf.bytes = <<"T">>
    /\ sinkLog # <<>>
    /\ Last(sinkLog).bytes = <<"T", "x", "NL">>
    /\ Last(enqLog) = Last(sinkLog)
    /\ buf.id \notin {sinkLog[i].id : i \in 1..Len(sinkLog)}

====
